---- MODULE Spec2Model ----
(***************************************************************************)
(* The query/aggregation layer of shealth (src/src/shealth/database.py):   *)
(* HealthDatabase's accessors over the Health Connect SQLite store, and    *)
(* the commands of its CLI (src/src/shealth/cli.py) that call them.        *)
(*                                                                         *)
(* Instants are epoch milliseconds, as the store keeps them.  A Python     *)
(* datetime is a record [ms, us]: the epoch millisecond it falls in and    *)
(* the microseconds past that millisecond.  The process's local zone is a  *)
(* fixed offset east of UTC (no daylight-saving change inside a window).   *)
(* A table is the sequence of its rows, a row's rowid its index.  NULL     *)
(* column values are not modelled.                                         *)
(*                                                                         *)
(* open counts the sqlite3 connections that are open, _db is the global    *)
(* store handle of get_db(), constructed the number of HealthDatabase      *)
(* objects made so far, and trace the calls the last CLI command made     *)
(* or the last sync run made (in the configuration and repeated-call       *)
(* specifications: the call made before the last one).                     *)
(*                                                                         *)
(* The configuration (src/src/shealth/config.py) lives in heap, the dict   *)
(* objects of the process, configs, the Config objects made, and files,    *)
(* the YAML files.  The sync step (src/src/shealth/sync.py) works on       *)
(* drive, the archive in the Drive folder, cache_zip and cache_hash_file,  *)
(* its cached copy and that copy's recorded hash, and on the store file.   *)
(***************************************************************************)
EXTENDS Integers, Sequences, FiniteSets, TLC

VARIABLES now, dbExists, tables, store, result, open, _db, constructed, trace,
          heap, configs, files, cache_zip, cache_hash_file, drive

configVars == <<heap, configs, files>>
syncVars == <<cache_zip, cache_hash_file, drive>>

vars == <<now, dbExists, tables, store, result, open, _db, constructed, trace,
          configVars, syncVars>>

-----------------------------------------------------------------------------
(* Bounds of the model. *)

MaxDays == 2
MaxRows == 2

-----------------------------------------------------------------------------
(* Units and lookup tables. *)

MsPerSecond == 1000
MsPerMinute == 60000
MsPerHour == 3600000
Day == 24 * MsPerHour
UtcOffsetMs == 1 * MsPerHour

SLEEP_STAGES == 1 :> "Light" @@ 4 :> "Deep" @@ 5 :> "Awake" @@ 6 :> "REM"

EXERCISE_TYPES ==
    0 :> "Unknown" @@ 2 :> "Badminton" @@ 4 :> "Weightlifting" @@ 8 :> "Boxing"
    @@ 10 :> "Cricket" @@ 12 :> "Dancing" @@ 14 :> "Elliptical" @@ 16 :> "Fencing"
    @@ 18 :> "Football (American)" @@ 20 :> "Frisbee" @@ 21 :> "Cycling"
    @@ 22 :> "Golf" @@ 24 :> "Gymnastics" @@ 26 :> "Handball" @@ 28 :> "HIIT"
    @@ 30 :> "Hiking" @@ 32 :> "Hockey" @@ 33 :> "Running"
    @@ 34 :> "Skating (Ice)" @@ 36 :> "Martial Arts" @@ 38 :> "Pilates"
    @@ 40 :> "Racquetball" @@ 42 :> "Rock Climbing" @@ 44 :> "Rowing"
    @@ 46 :> "Sailing" @@ 48 :> "Skating" @@ 50 :> "Skiing"
    @@ 52 :> "Snowboarding" @@ 53 :> "Walking" @@ 54 :> "Soccer"
    @@ 56 :> "Squash" @@ 58 :> "Swimming" @@ 60 :> "Table Tennis"
    @@ 61 :> "Hiking" @@ 62 :> "Tennis" @@ 64 :> "Volleyball" @@ 66 :> "Yoga"
    @@ 68 :> "Stretching"

KNOWN_TABLES ==
    { "sleep_session_record_table", "sleep_stages_table", "steps_record_table",
      "heart_rate_record_table", "heart_rate_record_series_table",
      "heart_rate_variability_rmssd_record_table",
      "resting_heart_rate_record_table", "exercise_session_record_table",
      "weight_record_table", "oxygen_saturation_record_table" }

(* Python's None, and a value where None may stand instead: None is the empty
   tuple, a present value x the 1-tuple Some(x). *)
None == <<>>
Some(x) == <<x>>

(* The missing value pandas puts in a column of names. *)
NaN == "NaN"

(* f"Unknown ({code})" *)
UnknownLabel(code) == "Unknown (" \o ToString(code) \o ")"

(* SLEEP_STAGES.get(stage_type, f"Unknown ({stage_type})") *)
StageNameOrUnknown(code) ==
    IF code \in DOMAIN SLEEP_STAGES THEN SLEEP_STAGES[code] ELSE UnknownLabel(code)

(* df["stage_type"].map(SLEEP_STAGES): a code the dict lacks maps to NaN. *)
StageNameMapped(code) ==
    IF code \in DOMAIN SLEEP_STAGES THEN SLEEP_STAGES[code] ELSE NaN

(* The exercise name with one label for every code the dict lacks. *)
ExerciseNameOneLabel(code) ==
    IF code \in DOMAIN EXERCISE_TYPES THEN EXERCISE_TYPES[code] ELSE "Unknown"

(* EXERCISE_TYPES.get(x, f"Unknown ({x})") *)
ExerciseName(code) ==
    IF code \in DOMAIN EXERCISE_TYPES THEN EXERCISE_TYPES[code] ELSE UnknownLabel(code)

-----------------------------------------------------------------------------
(* Arithmetic helpers. *)

RECURSIVE SumOver(_, _)
(* The sum of f[i] over the finite set S of indices. *)
SumOver(f, S) ==
    IF S = {} THEN 0
    ELSE LET i == CHOOSE j \in S : TRUE IN f[i] + SumOver(f, S \ {i})

SetMax(S) == CHOOSE m \in S : \A k \in S : k <= m
SetMin(S) == CHOOSE m \in S : \A k \in S : m <= k

(* A float quotient n / d kept exact: the pair <<n, d>>. *)
Ratio(n, d) == <<n, d>>

RoundHalfUpDiv(n, d) == (2 * n + d) \div (2 * d)

(* n / d (n >= 0, d > 0) rounded to the nearest integer, a tie to the even one:
   Python's round() on a float that holds the quotient exactly. *)
RoundDiv(n, d) ==
    LET q == n \div d
        r == n % d
    IN  IF 2 * r < d THEN q
        ELSE IF 2 * r > d THEN q + 1
        ELSE IF q % 2 = 0 THEN q ELSE q + 1

(* round(n / d, 1), in tenths. *)
Round1(n, d) == RoundDiv(10 * n, d)

(* SQLite's ROUND(n / d, 1), in tenths: a tie rounds away from zero. *)
SqlRound1(n, d) == RoundHalfUpDiv(10 * n, d)

-----------------------------------------------------------------------------
(* Time. *)

(* int(dt.timestamp() * 1000): the microseconds past the millisecond are cut. *)
ToMs(dt) == dt.ms

(* dt - timedelta(days=n) *)
MinusDays(dt, n) == [ms |-> dt.ms - n * Day, us |-> dt.us]

(* dt + timedelta(days=n) *)
PlusDays(dt, n) == [ms |-> dt.ms + n * Day, us |-> dt.us]

(* dt.replace(hour=0, minute=0, second=0, microsecond=0): local midnight. *)
Midnight(dt) == [ms |-> ((dt.ms + UtcOffsetMs) \div Day) * Day - UtcOffsetMs, us |-> 0]

(* end_date or datetime.now() with the argument left out of account. *)
EndIgnored(end_date) == now

(* end_date or datetime.now() *)
EndOrNow(end_date) == IF end_date = None THEN now ELSE end_date[1]

(* The window of an accessor called with (days, end_date): <<start_ms, end_ms>>. *)
Window(days, end_date) ==
    LET e == EndOrNow(end_date)
    IN  <<ToMs(MinusDays(e, days)), ToMs(e)>>

(* The window with its upper bound left out. *)
InWindowUpperOpen(t, w) == t >= w[1] /\ t < w[2]

(* WHERE t >= ? AND t <= ? *)
InWindow(t, w) == t >= w[1] /\ t <= w[2]

(* The half-open window with its upper bound let in. *)
InHalfOpenClosed(t, w) == t >= w[1] /\ t <= w[2]

(* WHERE t >= ? AND t < ? *)
InHalfOpen(t, w) == t >= w[1] /\ t < w[2]

(* datetime(t/1000, 'unixepoch', 'localtime'): local wall-clock seconds. *)
SqlLocalDatetime(t) == (t \div MsPerSecond) + (UtcOffsetMs \div MsPerSecond)

(* date(t/1000, 'unixepoch', 'localtime'): the local calendar day, as a day number. *)
SqlLocalDate(t) == SqlLocalDatetime(t) \div (Day \div MsPerSecond)

(* The day of t with the 'localtime' modifier added to the conversion. *)
SqlUtcDateShifted(t) == SqlLocalDate(t)

(* date(t/1000, 'unixepoch'): the UTC calendar day of t. *)
SqlUtcDate(t) == (t \div MsPerSecond) \div (Day \div MsPerSecond)

-----------------------------------------------------------------------------
(* Outcomes of a call, and the store connection. *)

DbPath == "~/.local/share/samsung-health/health.db"

Return(v) == [status |-> "return", value |-> v]
Raise(e) == [status |-> "raise", error |-> e]

(* FileNotFoundError(f"Database not found at {self.db_path}. Run 'shealth sync' first.") *)
StoreNotFound ==
    [type |-> "FileNotFoundError",
     message |-> <<"Database not found at ", DbPath, ". Run 'shealth sync' first.">>]

(* What sqlite3 reports for a query that names a table the file lacks:
   sqlite3.OperationalError from conn.execute, which pd.read_sql_query
   re-raises as pandas' DatabaseError. *)
NoSuchTable(kind, t) == [type |-> kind, message |-> <<"no such table: ", t>>]

(* The first table of the sequence ts that the file lacks, or None. *)
FirstMissing(ts) ==
    LET miss == {i \in 1..Len(ts) : ts[i] \notin tables}
    IN  IF miss = {} THEN None ELSE Some(ts[SetMin(miss)])

(* The connection without its check of the file: sqlite3.connect() makes the
   missing file, an empty store, and the query fails on its first table. *)
ConnectionUnchecked(via, ts, outcome) ==
    IF FirstMissing(ts) # None THEN Raise(NoSuchTable(via, FirstMissing(ts)[1]))
    ELSE outcome

(* `with self.connection() as conn:` around a query that reads the tables ts
   through `via` and, when they exist, ends with the outcome `outcome`. *)
Connection(via, ts, outcome) ==
    IF ~dbExists THEN Raise(StoreNotFound)
    ELSE IF FirstMissing(ts) # None THEN Raise(NoSuchTable(via, FirstMissing(ts)[1]))
    ELSE outcome

(* Whether a call that ended with out got as far as sqlite3.connect(): the
   check of the file raises before it. *)
Opened(out) == IF out.status = "raise" /\ out.error = StoreNotFound THEN 0 ELSE 1

(* conn.close() reached only when the body of the `with` ends normally. *)
ClosedOnReturn(out) == IF out.status = "return" THEN Opened(out) ELSE 0

(* `try: yield conn  finally: conn.close()`: the connection that was opened is
   closed however the body of the `with` ends. *)
Closed(out) == Opened(out)

(* sqlite3.connect(path) reached with no file at the path: it makes the file. *)
ExistsAfterConnect == TRUE

(* Whether the store file exists after connection(): a missing file is never
   handed to sqlite3.connect(), so it stays missing. *)
ExistsAfterConnection == dbExists

Rows(t) == store[t]
Ids(t) == 1..Len(store[t])

RECURSIVE OrderDesc(_, _)
(* ORDER BY key DESC over the rows S; equal keys stay in rowid order. *)
OrderDesc(key, S) ==
    IF S = {} THEN <<>>
    ELSE LET m == SetMax({key[i] : i \in S})
             i == SetMin({j \in S : key[j] = m})
         IN  <<i>> \o OrderDesc(key, S \ {i})

RECURSIVE OrderAsc(_, _)
(* ORDER BY key over the rows S; equal keys stay in rowid order. *)
OrderAsc(key, S) ==
    IF S = {} THEN <<>>
    ELSE LET m == SetMin({key[i] : i \in S})
             i == SetMin({j \in S : key[j] = m})
         IN  <<i>> \o OrderAsc(key, S \ {i})

RECURSIVE SetDesc(_)
(* The integers of S, greatest first. *)
SetDesc(S) == IF S = {} THEN <<>> ELSE <<SetMax(S)>> \o SetDesc(S \ {SetMax(S)})

-----------------------------------------------------------------------------
(* The accessors, as the outcome each produces in the current state. *)

get_table_counts ==
    IF ~dbExists THEN Raise(StoreNotFound)
    ELSE Return([t \in KNOWN_TABLES |-> IF t \in tables THEN Len(store[t]) ELSE 0])

(* datetime.fromtimestamp(ms / 1000) *)
FromTimestamp(ms) == [ms |-> ms, us |-> 0]

get_date_range ==
    LET srcs == <<"sleep_session_record_table", "steps_record_table",
                  "heart_rate_record_table", "exercise_session_record_table">>
        starts == UNION {{store[srcs[k]][i].start_time : i \in Ids(srcs[k])} : k \in 1..4}
    IN  Connection("OperationalError", srcs,
            IF starts # {} /\ SetMin(starts) # 0 /\ SetMax(starts) # 0
            THEN Return(<<FromTimestamp(SetMin(starts)), FromTimestamp(SetMax(starts))>>)
            ELSE Return(<<None, None>>))

SleepSessionsSelected(w) ==
    {i \in Ids("sleep_session_record_table") :
        InWindow(Rows("sleep_session_record_table")[i].start_time, w)}

get_sleep_sessions(days, end_date) ==
    LET T == Rows("sleep_session_record_table")
        order == OrderDesc([i \in Ids("sleep_session_record_table") |-> T[i].start_time],
                           SleepSessionsSelected(Window(days, end_date)))
    IN  Connection("DatabaseError", <<"sleep_session_record_table">>,
            Return([k \in 1..Len(order) |->
                [row_id |-> order[k],
                 start_time |-> SqlLocalDatetime(T[order[k]].start_time),
                 end_time |-> SqlLocalDatetime(T[order[k]].end_time),
                 duration_minutes |->
                     Ratio(T[order[k]].end_time - T[order[k]].start_time, MsPerMinute)]]))

(* The stages of every session: the query without its WHERE clause. *)
StagesOfAnySession(session_id) == Ids("sleep_stages_table")

(* WHERE parent_key = ? *)
StagesOfSession(session_id) ==
    {i \in Ids("sleep_stages_table") :
        Rows("sleep_stages_table")[i].parent_key = session_id}

get_sleep_stages(session_id) ==
    LET T == Rows("sleep_stages_table")
        order == OrderAsc([i \in Ids("sleep_stages_table") |-> T[i].stage_start_time],
                          StagesOfSession(session_id))
    IN  Connection("DatabaseError", <<"sleep_stages_table">>,
            Return([k \in 1..Len(order) |->
                [stage_type |-> T[order[k]].stage_type,
                 start_time |-> SqlLocalDatetime(T[order[k]].stage_start_time),
                 end_time |-> SqlLocalDatetime(T[order[k]].stage_end_time),
                 duration_minutes |->
                     Ratio(T[order[k]].stage_end_time - T[order[k]].stage_start_time,
                           MsPerMinute),
                 stage_name |-> StageNameMapped(T[order[k]].stage_type)]]))

(* group["duration_minutes"].sum() over the rows of df whose column col is v. *)
GroupMinutes(df, col, v) ==
    Ratio(SumOver([k \in 1..Len(df) |-> df[k].duration_minutes[1]],
                  {k \in 1..Len(df) : df[k][col] = v}),
          MsPerMinute)

(* The dict a loop `for code, group in df.groupby(col): d[name[code]] = entry[code]`
   leaves, name and entry being given for each code of the column: groups come
   in ascending code order, a later one overwrites an earlier one of the same
   name. *)
DictByName(name, entry) ==
    [n \in {name[c] : c \in DOMAIN name} |->
        entry[SetMax({c \in DOMAIN name : name[c] = n})]]

SleepStageSummaryOf(stages) ==
    LET codes == {stages[k].stage_type : k \in 1..Len(stages)}
    IN  IF Len(stages) = 0 THEN <<>>
        ELSE DictByName([c \in codes |-> StageNameOrUnknown(c)],
                        [c \in codes |-> GroupMinutes(stages, "stage_type", c)])

get_sleep_stage_summary(session_id) ==
    LET got == get_sleep_stages(session_id)
    IN  IF got.status = "raise" THEN got
        ELSE Return(SleepStageSummaryOf(got.value))

StepsSelected(w) ==
    {i \in Ids("steps_record_table") :
        InWindow(Rows("steps_record_table")[i].local_date_time_start_time, w)}

get_daily_steps(days, end_date) ==
    LET T == Rows("steps_record_table")
        sel == StepsSelected(Window(days, end_date))
        DateOf(i) == SqlUtcDate(T[i].local_date_time_start_time)
        dates == SetDesc({DateOf(i) : i \in sel})
    IN  Connection("DatabaseError", <<"steps_record_table">>,
            Return([k \in 1..Len(dates) |->
                [date |-> dates[k],
                 steps |-> SumOver([i \in Ids("steps_record_table") |-> T[i].count],
                                   {i \in sel : DateOf(i) = dates[k]})]]))

(* heart_rate_record_series_table s JOIN heart_rate_record_table h
   ON s.parent_key = h.row_id: the start of sample i's session. *)
HasSession(i) ==
    Rows("heart_rate_record_series_table")[i].parent_key \in Ids("heart_rate_record_table")

(* The instant the sample itself was taken at, which no query reads. *)
SampleInstant(i) == Rows("heart_rate_record_series_table")[i].epoch_millis

SessionStart(i) ==
    Rows("heart_rate_record_table")[
        Rows("heart_rate_record_series_table")[i].parent_key].start_time

(* WHERE h.start_time >= ? AND h.start_time <= ? *)
HeartRateSelected(w) ==
    {i \in Ids("heart_rate_record_series_table") :
        HasSession(i) /\ InWindow(SessionStart(i), w)}

Bpm == [i \in Ids("heart_rate_record_series_table") |->
            Rows("heart_rate_record_series_table")[i].beats_per_minute]

HeartRateTables == <<"heart_rate_record_series_table", "heart_rate_record_table">>

(* avg_hr is in tenths of a beat per minute. *)
get_heart_rate_stats(days, end_date) ==
    LET sel == HeartRateSelected(Window(days, end_date))
    IN  Connection("OperationalError", HeartRateTables,
            IF Cardinality(sel) > 0
            THEN Return([avg_hr |-> Round1(SumOver(Bpm, sel), Cardinality(sel)),
                         min_hr |-> SetMin({Bpm[i] : i \in sel}),
                         max_hr |-> SetMax({Bpm[i] : i \in sel}),
                         sample_count |-> Cardinality(sel)])
            ELSE Return([avg_hr |-> 0, min_hr |-> 0, max_hr |-> 0, sample_count |-> 0]))

get_daily_heart_rate(days, end_date) ==
    LET sel == HeartRateSelected(Window(days, end_date))
        DateOf(i) == SqlLocalDate(SessionStart(i))
        dates == SetDesc({DateOf(i) : i \in sel})
        Of(d) == {i \in sel : DateOf(i) = d}
    IN  Connection("DatabaseError", HeartRateTables,
            Return([k \in 1..Len(dates) |->
                [date |-> dates[k],
                 avg_hr |-> SqlRound1(SumOver(Bpm, Of(dates[k])), Cardinality(Of(dates[k]))),
                 min_hr |-> SetMin({Bpm[i] : i \in Of(dates[k])}),
                 max_hr |-> SetMax({Bpm[i] : i \in Of(dates[k])}),
                 samples |-> Cardinality(Of(dates[k]))]]))

(* WHERE start_time >= ? AND start_time <= ? [AND exercise_type = ?] *)
WorkoutsSelected(w, exercise_type) ==
    {i \in Ids("exercise_session_record_table") :
        /\ InWindow(Rows("exercise_session_record_table")[i].start_time, w)
        /\ exercise_type # None =>
               Rows("exercise_session_record_table")[i].exercise_type = exercise_type[1]}

get_workouts(days, end_date, exercise_type) ==
    LET T == Rows("exercise_session_record_table")
        order == OrderDesc([i \in Ids("exercise_session_record_table") |-> T[i].start_time],
                           WorkoutsSelected(Window(days, end_date), exercise_type))
    IN  Connection("DatabaseError", <<"exercise_session_record_table">>,
            Return([k \in 1..Len(order) |->
                [row_id |-> order[k],
                 start_time |-> SqlLocalDatetime(T[order[k]].start_time),
                 end_time |-> SqlLocalDatetime(T[order[k]].end_time),
                 duration_minutes |->
                     Ratio(T[order[k]].end_time - T[order[k]].start_time, MsPerMinute),
                 exercise_type |-> T[order[k]].exercise_type,
                 exercise_name |-> ExerciseName(T[order[k]].exercise_type)]]))

(* The by_type entry of the workouts of df whose exercise_type is c;
   total_minutes and avg_minutes are in tenths of a minute. *)
WorkoutGroup(df, c) ==
    LET g == {k \in 1..Len(df) : df[k].exercise_type = c}
        total == GroupMinutes(df, "exercise_type", c)
    IN  [count |-> Cardinality(g),
         total_minutes |-> Round1(total[1], total[2]),
         avg_minutes |-> Round1(total[1], total[2] * Cardinality(g))]

WorkoutSummaryOf(workouts) ==
    LET codes == {workouts[k].exercise_type : k \in 1..Len(workouts)}
        all == SumOver([k \in 1..Len(workouts) |-> workouts[k].duration_minutes[1]],
                       1..Len(workouts))
    IN  IF Len(workouts) = 0
        THEN [total_workouts |-> 0, total_minutes |-> 0, by_type |-> <<>>]
        ELSE [total_workouts |-> Len(workouts),
              total_minutes |-> Round1(all, MsPerMinute),
              by_type |-> DictByName([c \in codes |-> ExerciseName(c)],
                                     [c \in codes |-> WorkoutGroup(workouts, c)])]

get_workout_summary(days, end_date) ==
    LET got == get_workouts(days, end_date, None)
    IN  IF got.status = "raise" THEN got
        ELSE Return(WorkoutSummaryOf(got.value))

Spo2Selected(w) ==
    {i \in Ids("oxygen_saturation_record_table") :
        InWindow(Rows("oxygen_saturation_record_table")[i].time, w)}

get_spo2_readings(days, end_date) ==
    LET T == Rows("oxygen_saturation_record_table")
        order == OrderDesc([i \in Ids("oxygen_saturation_record_table") |-> T[i].time],
                           Spo2Selected(Window(days, end_date)))
    IN  Connection("DatabaseError", <<"oxygen_saturation_record_table">>,
            Return([k \in 1..Len(order) |->
                [time |-> SqlLocalDatetime(T[order[k]].time),
                 date |-> SqlLocalDate(T[order[k]].time),
                 spo2 |-> T[order[k]].percentage]]))

(* avg_spo2 is in tenths of a percent. *)
Spo2StatsOf(readings) ==
    LET all == 1..Len(readings)
        vals == {readings[k].spo2 : k \in all}
    IN  IF Len(readings) = 0
        THEN [avg_spo2 |-> 0, min_spo2 |-> 0, max_spo2 |-> 0, count |-> 0]
        ELSE [avg_spo2 |-> Round1(SumOver([k \in all |-> readings[k].spo2], all),
                                  Len(readings)),
              min_spo2 |-> SetMin(vals),
              max_spo2 |-> SetMax(vals),
              count |-> Len(readings)]

get_spo2_stats(days, end_date) ==
    LET got == get_spo2_readings(days, end_date)
    IN  IF got.status = "raise" THEN got
        ELSE Return(Spo2StatsOf(got.value))

(* today = datetime.now().replace(hour=0, ...); tomorrow = today + timedelta(days=1):
   <<today_ms, tomorrow_ms>>. *)
TodayWindow == <<ToMs(Midnight(now)), ToMs(PlusDays(Midnight(now), 1))>>

TodayTables ==
    <<"steps_record_table", "sleep_session_record_table",
      "heart_rate_record_series_table", "heart_rate_record_table",
      "exercise_session_record_table", "oxygen_saturation_record_table">>

TodayStepsSelected ==
    {i \in Ids("steps_record_table") :
        InHalfOpen(Rows("steps_record_table")[i].local_date_time_start_time, TodayWindow)}

(* Last night's sleep picked by the session's start instead of its end. *)
TodaySleepSelectedByStart ==
    {i \in Ids("sleep_session_record_table") :
        InHalfOpen(Rows("sleep_session_record_table")[i].start_time, TodayWindow)}

TodaySleepSelected ==
    {i \in Ids("sleep_session_record_table") :
        InHalfOpen(Rows("sleep_session_record_table")[i].end_time, TodayWindow)}

TodayHeartRateSelected ==
    {i \in Ids("heart_rate_record_series_table") :
        HasSession(i) /\ InHalfOpen(SessionStart(i), TodayWindow)}

TodayWorkoutsSelected ==
    {i \in Ids("exercise_session_record_table") :
        InHalfOpen(Rows("exercise_session_record_table")[i].start_time, TodayWindow)}

TodaySpo2Selected ==
    {i \in Ids("oxygen_saturation_record_table") :
        InHalfOpen(Rows("oxygen_saturation_record_table")[i].time, TodayWindow)}

(* ORDER BY key DESC LIMIT 1 over the rows S: the rows the query may return
   (rows of equal key come in no stated order); {0} when it returns no row. *)
Latest(key, S) ==
    IF S = {} THEN {0}
    ELSE {i \in S : \A j \in S : key[j] <= key[i]}

TodaySleepPicks ==
    Latest([i \in Ids("sleep_session_record_table") |->
                Rows("sleep_session_record_table")[i].end_time],
           TodaySleepSelected)

TodaySpo2Picks ==
    Latest([i \in Ids("oxygen_saturation_record_table") |->
                Rows("oxygen_saturation_record_table")[i].time],
           TodaySpo2Selected)

(* `if row and row["hours"]: summary["sleep_hours"] = round(row["hours"], 1)`,
   in tenths of an hour, for the row s the sleep query returned. *)
TodaySleepHours(s) ==
    LET T == Rows("sleep_session_record_table")
    IN  IF s # 0 /\ T[s].end_time - T[s].start_time # 0
        THEN Round1(T[s].end_time - T[s].start_time, MsPerHour)
        ELSE 0

(* The heart-rate lookup made only when the steps lookup found rows. *)
TodayAvgHrAfterSteps ==
    LET sel == TodayHeartRateSelected
    IN  IF TodayStepsSelected # {} /\ sel # {}
        THEN Round1(SumOver(Bpm, sel), Cardinality(sel))
        ELSE 0

(* `if row and row["avg_hr"]: summary["avg_hr"] = round(row["avg_hr"], 1)`, in tenths. *)
TodayAvgHr ==
    LET sel == TodayHeartRateSelected
    IN  IF sel # {} /\ SumOver(Bpm, sel) # 0
        THEN Round1(SumOver(Bpm, sel), Cardinality(sel))
        ELSE 0

(* `if row and row["spo2"]: summary["spo2"] = int(row["spo2"])` for the row o
   the SpO2 query returned. *)
TodaySpo2(o) ==
    LET T == Rows("oxygen_saturation_record_table")
    IN  IF o # 0 /\ T[o].percentage # 0 THEN Some(T[o].percentage) ELSE None

(* The summary when the sleep query returns row s and the SpO2 query row o. *)
TodaySummaryOf(s, o) ==
    [date |-> SqlLocalDate(TodayWindow[1]),
     steps |-> SumOver([i \in Ids("steps_record_table") |->
                            Rows("steps_record_table")[i].count],
                       TodayStepsSelected),
     sleep_hours |-> TodaySleepHours(s),
     avg_hr |-> TodayAvgHr,
     workouts |-> Cardinality(TodayWorkoutsSelected),
     spo2 |-> TodaySpo2(o)]

(* The outcomes get_today_summary() may end with. *)
get_today_summary ==
    IF ~dbExists \/ FirstMissing(TodayTables) # None
    THEN {Connection("OperationalError", TodayTables, None)}
    ELSE {Return(TodaySummaryOf(s, o)) : s \in TodaySleepPicks, o \in TodaySpo2Picks}

-----------------------------------------------------------------------------
(* The stores and calls the model ranges over. *)

(* Today 00:00 local time, and the instant datetime.now() falls in. *)
Today0 == 5 * Day - UtcOffsetMs
NowMs == Today0 + 13 * MsPerHour + 250

NowChoices == {[ms |-> NowMs, us |-> 500], [ms |-> Today0, us |-> 0]}

Days == 1..MaxDays
EndDates == {None, Some([ms |-> NowMs - Day, us |-> 0])}
SessionIds == 1..(MaxRows + 1)
ExerciseFilters == {None, Some(30), Some(61), Some(9999)}

SeqsUpTo(S, n) == UNION {[1..k -> S] : k \in 0..n}

RECURSIVE SetToSeq(_)
(* The elements of S, each once, in some order. *)
SetToSeq(S) ==
    IF S = {} THEN <<>>
    ELSE LET x == CHOOSE y \in S : TRUE IN <<x>> \o SetToSeq(S \ {x})

EmptyStore == [t \in KNOWN_TABLES |-> <<>>]

(* The tables of base, the table t holding rows instead. *)
With(base, t, rows) == [base EXCEPT ![t] = rows]

SleepRow(start, end) == [start_time |-> start, end_time |-> end]
StageRow(parent, type, start, end) ==
    [parent_key |-> parent, stage_type |-> type,
     stage_start_time |-> start, stage_end_time |-> end]
StepsRow(start, local, count) ==
    [start_time |-> start, local_date_time_start_time |-> local, count |-> count]
HeartRateRow(start) == [start_time |-> start]
SampleRow(parent, bpm, at) ==
    [parent_key |-> parent, beats_per_minute |-> bpm, epoch_millis |-> at]
WorkoutRow(start, end, type) ==
    [start_time |-> start, end_time |-> end, exercise_type |-> type]
Spo2Row(at, pct) == [time |-> at, percentage |-> pct]

(* A store like the one the repository's tests build (tests/test_database.py),
   with one SpO2 reading added. *)
SampleStore ==
    LET y == NowMs - Day
    IN  [t \in KNOWN_TABLES |->
         CASE t = "sleep_session_record_table" -> <<SleepRow(y, y + 8 * MsPerHour)>>
           [] t = "sleep_stages_table" ->
                <<StageRow(1, 1, y, y + 2 * MsPerHour),
                  StageRow(1, 4, y + 2 * MsPerHour, y + 4 * MsPerHour)>>
           [] t = "steps_record_table" -> <<StepsRow(y, y, 5000), StepsRow(y, y, 3000)>>
           [] t = "heart_rate_record_table" -> <<HeartRateRow(y)>>
           [] t = "heart_rate_record_series_table" ->
                <<SampleRow(1, 70, y), SampleRow(1, 75, NowMs)>>
           [] t = "exercise_session_record_table" ->
                <<WorkoutRow(y, y + 30 * MsPerMinute, 53)>>
           [] t = "oxygen_saturation_record_table" -> <<Spo2Row(y, 97)>>
           [] OTHER -> <<>>]

(* A store whose rows all lie in today's window. *)
TodayStore ==
    LET m == Today0 + 7 * MsPerHour
    IN  [t \in KNOWN_TABLES |->
         CASE t = "sleep_session_record_table" -> <<SleepRow(m - 8 * MsPerHour, m)>>
           [] t = "steps_record_table" -> <<StepsRow(m - UtcOffsetMs, m, 8000)>>
           [] t = "heart_rate_record_table" -> <<HeartRateRow(m)>>
           [] t = "heart_rate_record_series_table" ->
                <<SampleRow(1, 70, m), SampleRow(1, 75, m + MsPerMinute)>>
           [] t = "exercise_session_record_table" ->
                <<WorkoutRow(m, m + 30 * MsPerMinute, 33)>>
           [] t = "oxygen_saturation_record_table" -> <<Spo2Row(m, 98)>>
           [] OTHER -> <<>>]

(* Today's rows in one table only, and in every table but one. *)
MixedStores ==
    {With(EmptyStore, t, TodayStore[t]) : t \in KNOWN_TABLES}
    \cup {With(TodayStore, t, <<>>) : t \in KNOWN_TABLES}

(* The rows of s that a file holding only the tables ts can hold. *)
Restrict(s, ts) == [t \in KNOWN_TABLES |-> IF t \in ts THEN s[t] ELSE <<>>]

NoCall == [op |-> "none", args |-> <<>>, out |-> Return(None)]

Call(op, args, out) == [op |-> op, args |-> args, out |-> out]

-----------------------------------------------------------------------------
(* Configuration (src/src/shealth/config.py): Python objects and YAML documents. *)

(* A Python value: an int, a str, None, or a reference to a dict object of the
   heap.  A dict object is the function from its keys to their values. *)
PyInt(n) == <<"int", n>>
PyStr(s) == <<"str", s>>
PyNone == <<"none", 0>>
Ref(o) == <<"ref", o>>

(* A YAML document's content: a scalar as above, or a mapping of keys to contents. *)
Map(f) == <<"map", f>>

(* isinstance(value, dict) *)
IsDict(value) == value[1] = "ref"

(* bool(value) of a document's content: None, 0, "" and {} are false. *)
Truthy(t) ==
    CASE t[1] = "none" -> FALSE
      [] t[1] = "int" -> t[2] # 0
      [] t[1] = "str" -> t[2] # ""
      [] t[1] = "map" -> DOMAIN t[2] # {}
      [] OTHER -> TRUE

(* d[k] = v *)
Put(d, k, v) == [x \in DOMAIN d \cup {k} |-> IF x = k THEN v ELSE d[x]]

(* The objects made when the module is imported: DEFAULT_CONFIG and its two
   nested dicts. *)
DEFAULT_CONFIG == 1
DefaultHeap ==
    << ("google_drive" :> Ref(2) @@ "goals" :> Ref(3)
        @@ "timezone" :> PyStr("Europe/Copenhagen")),
       ("folder_id" :> PyStr("YOUR_FOLDER_ID") @@ "account" :> PyStr("your.email@gmail.com")
        @@ "file_name" :> PyStr("Health Connect.zip")),
       ("daily_steps" :> PyInt(10000) @@ "sleep_hours" :> PyInt(8)) >>

RECURSIVE yaml_safe_load(_, _), LoadItems(_, _, _, _)
(* The items of the mapping f loaded one by one into the dict d. *)
LoadItems(h, f, keys, d) ==
    IF keys = <<>> THEN <<h, d>>
    ELSE LET r == yaml_safe_load(h, f[Head(keys)])
         IN  LoadItems(r[1], f, Tail(keys), Put(d, Head(keys), r[2]))

(* yaml.safe_load: <<heap, value>>, every mapping of the document a new dict. *)
yaml_safe_load(h, t) ==
    IF t[1] = "map"
    THEN LET r == LoadItems(h, t[2], SetToSeq(DOMAIN t[2]), <<>>)
         IN  <<Append(r[1], r[2]), Ref(Len(r[1]) + 1)>>
    ELSE <<h, t>>

RECURSIVE yaml_dump(_, _)
(* yaml.dump: the document that holds the value and all it refers to. *)
yaml_dump(h, value) ==
    IF IsDict(value)
    THEN Map([k \in DOMAIN h[value[2]] |-> yaml_dump(h, h[value[2]][k])])
    ELSE value

RECURSIVE _merge_defaults(_, _, _), MergeItems(_, _, _, _)
(* `for key, value in config.items()` over the keys left, merged being the
   dict `result` built so far. *)
MergeItems(h, merged, config, keys) ==
    IF keys = <<>> THEN <<h, merged>>
    ELSE LET key == Head(keys)
             value == config[key]
         IN  IF key \in DOMAIN merged /\ IsDict(merged[key]) /\ IsDict(value)
             THEN LET r == _merge_defaults(h, merged[key][2], value[2])
                  IN  MergeItems(r[1], Put(merged, key, Ref(r[2])), config, Tail(keys))
             ELSE MergeItems(h, Put(merged, key, value), config, Tail(keys))

(* Config._merge_defaults(defaults, config) on two dict objects: <<heap, id of
   the new dict>>.  `result = defaults.copy()` copies the keys and values of
   defaults: a value that is a dict stays the same object. *)
_merge_defaults(h, defaults, config) ==
    LET r == MergeItems(h, h[defaults], h[config], SetToSeq(DOMAIN h[config]))
    IN  <<Append(r[1], r[2]), Len(r[1]) + 1>>

(* The Config objects a process makes and the files they are made from:
   config, made from config.yaml, is the one changed and saved; config2 is made
   from either file and read. *)
ConfigNames == {"config", "config2"}
ConfigPaths == {"config.yaml", "other.yaml"}
PathsOf(c) == IF c = "config" THEN {"config.yaml"} ELSE ConfigPaths
Changed == {"config"}

(* The module imported, no Config made, no config file written. *)
FreshConfig ==
    /\ heap = DefaultHeap
    /\ configs = [c \in ConfigNames |-> None]
    /\ files = [p \in ConfigPaths |-> None]

(* Nothing cached and no file in the Drive folder. *)
FreshSync ==
    /\ cache_zip = None
    /\ cache_hash_file = None
    /\ drive = None

-----------------------------------------------------------------------------
(* Initial states: the store file as the sync step left it (or never made it). *)

(* The process at its start: no connection open, `_db = None`, no
   HealthDatabase made, no command run, no Config made, nothing synced. *)
Fresh ==
    /\ open = 0
    /\ _db = None
    /\ constructed = 0
    /\ trace = <<>>
    /\ FreshConfig
    /\ FreshSync

(* No file, a file lacking some tables, or a file with every table; the rows
   empty or the sample rows. *)
Init ==
    /\ now \in NowChoices
    /\ result = NoCall
    /\ Fresh
    /\ \/ /\ dbExists = FALSE
          /\ tables = {}
          /\ store = EmptyStore
       \/ /\ dbExists = TRUE
          /\ tables \in {KNOWN_TABLES, {}} \cup {KNOWN_TABLES \ {t} : t \in KNOWN_TABLES}
          /\ \E s \in {EmptyStore, SampleStore, TodayStore} \cup MixedStores :
                 store = Restrict(s, tables)

-----------------------------------------------------------------------------
(* The calls.  Each records its outcome; it opens at most one connection and
   executes SELECT statements only, so the tables and their rows stay. *)

Frame ==
    /\ open' = open + Opened(result'.out) - Closed(result'.out)
    /\ dbExists' = ExistsAfterConnection
    /\ UNCHANGED <<now, tables, store, _db, constructed, trace, configVars, syncVars>>

GetTableCounts ==
    /\ result' = Call("get_table_counts", <<>>, get_table_counts)
    /\ Frame

GetDateRange ==
    /\ result' = Call("get_date_range", <<>>, get_date_range)
    /\ Frame

GetSleepSessions ==
    \E days \in Days, end_date \in EndDates :
        /\ result' = Call("get_sleep_sessions", <<days, end_date>>,
                          get_sleep_sessions(days, end_date))
        /\ Frame

GetSleepStages ==
    \E session_id \in SessionIds :
        /\ result' = Call("get_sleep_stages", <<session_id>>, get_sleep_stages(session_id))
        /\ Frame

GetSleepStageSummary ==
    \E session_id \in SessionIds :
        /\ result' = Call("get_sleep_stage_summary", <<session_id>>,
                          get_sleep_stage_summary(session_id))
        /\ Frame

GetDailySteps ==
    \E days \in Days, end_date \in EndDates :
        /\ result' = Call("get_daily_steps", <<days, end_date>>,
                          get_daily_steps(days, end_date))
        /\ Frame

GetHeartRateStats ==
    \E days \in Days, end_date \in EndDates :
        /\ result' = Call("get_heart_rate_stats", <<days, end_date>>,
                          get_heart_rate_stats(days, end_date))
        /\ Frame

GetDailyHeartRate ==
    \E days \in Days, end_date \in EndDates :
        /\ result' = Call("get_daily_heart_rate", <<days, end_date>>,
                          get_daily_heart_rate(days, end_date))
        /\ Frame

GetWorkouts ==
    \E days \in Days, end_date \in EndDates, exercise_type \in ExerciseFilters :
        /\ result' = Call("get_workouts", <<days, end_date, exercise_type>>,
                          get_workouts(days, end_date, exercise_type))
        /\ Frame

GetWorkoutSummary ==
    \E days \in Days, end_date \in EndDates :
        /\ result' = Call("get_workout_summary", <<days, end_date>>,
                          get_workout_summary(days, end_date))
        /\ Frame

GetSpo2Readings ==
    \E days \in Days, end_date \in EndDates :
        /\ result' = Call("get_spo2_readings", <<days, end_date>>,
                          get_spo2_readings(days, end_date))
        /\ Frame

GetSpo2Stats ==
    \E days \in Days, end_date \in EndDates :
        /\ result' = Call("get_spo2_stats", <<days, end_date>>,
                          get_spo2_stats(days, end_date))
        /\ Frame

GetTodaySummary ==
    \E out \in get_today_summary :
        /\ result' = Call("get_today_summary", <<>>, out)
        /\ Frame

Next ==
    \/ GetTableCounts
    \/ GetDateRange
    \/ GetSleepSessions
    \/ GetSleepStages
    \/ GetSleepStageSummary
    \/ GetDailySteps
    \/ GetHeartRateStats
    \/ GetDailyHeartRate
    \/ GetWorkouts
    \/ GetWorkoutSummary
    \/ GetSpo2Readings
    \/ GetSpo2Stats
    \/ GetTodaySummary

Spec == Init /\ [][Next]_vars

-----------------------------------------------------------------------------
(* Stores whose rows sit on and around the bounds of the windows asked for. *)

RECURSIVE SetAsc(_)
SetAsc(S) == IF S = {} THEN <<>> ELSE <<SetMin(S)>> \o SetAsc(S \ {SetMin(S)})

WindowInstants == {NowMs - n * Day + d : n \in 0..(MaxDays + 1), d \in {-1, 0, 1}}

WindowTables ==
    { "sleep_session_record_table", "steps_record_table", "heart_rate_record_table",
      "exercise_session_record_table", "oxygen_saturation_record_table" }

(* Row k of table t for the instants ts: its filtering instant is ts[k], and a
   value of its own (count, bpm, percentage) tells it from the other rows. *)
WindowRows(t, ts) ==
    [k \in 1..Len(ts) |->
        CASE t = "sleep_session_record_table" -> SleepRow(ts[k], ts[k] + 8 * MsPerHour)
          [] t = "steps_record_table" -> StepsRow(ts[k] - UtcOffsetMs, ts[k], 2 ^ k)
          [] t = "heart_rate_record_table" -> HeartRateRow(ts[k])
          [] t = "exercise_session_record_table" ->
                WorkoutRow(ts[k], ts[k] + 30 * MsPerMinute, 53)
          [] OTHER -> Spo2Row(ts[k], 90 + k)]

(* One sample per heart-rate session, taken at an instant of its own. *)
WindowSamples(hr) == [k \in 1..Len(hr) |-> SampleRow(k, 60 + k, NowMs - 2 * k)]

InitWindow ==
    /\ now = [ms |-> NowMs, us |-> 500]
    /\ result = NoCall
    /\ Fresh
    /\ dbExists = TRUE
    /\ tables = KNOWN_TABLES
    /\ \E t \in WindowTables, S \in SUBSET WindowInstants :
          /\ Cardinality(S) <= MaxRows
          /\ LET s == With(EmptyStore, t, WindowRows(t, SetAsc(S)))
             IN  store = With(s, "heart_rate_record_series_table",
                              WindowSamples(s["heart_rate_record_table"]))

NextWindow ==
    \/ GetSleepSessions
    \/ GetDailySteps
    \/ GetHeartRateStats
    \/ GetDailyHeartRate
    \/ GetWorkouts
    \/ GetSpo2Readings

SpecWindow == InitWindow /\ [][NextWindow]_vars

-----------------------------------------------------------------------------
(* Stores whose rows sit on and around the bounds of today's window. *)

TodayInstants ==
    {Today0 - 1, Today0, Today0 + 7 * MsPerHour, Today0 + Day - 1, Today0 + Day}

(* Sleep sessions by their end: one of 8 h, one of 7 h 20 min. *)
TodaySleepRows ==
    {SleepRow(e - d, e) : e \in TodayInstants, d \in {8 * MsPerHour, 440 * MsPerMinute}}

TodayStepsRows == {StepsRow(t - UtcOffsetMs, t, c) : t \in TodayInstants, c \in {0, 250}}

TodayWorkoutRows == {WorkoutRow(t, t + 30 * MsPerMinute, 33) : t \in TodayInstants}

(* Percentages inside and outside 1..100. *)
TodaySpo2Rows == {Spo2Row(t, p) : t \in TodayInstants, p \in {0, 97, 120}}

(* Samples taken inside today's window (bpm 75) and before it (bpm 60). *)
TodaySampleRows ==
    {SampleRow(k, 75, Today0 + 8 * MsPerHour) : k \in 1..MaxRows}
    \cup {SampleRow(k, 60, Today0 - MsPerHour) : k \in 1..MaxRows}

(* The stores with the rows of one lookup chosen freely, the other tables
   empty or holding today's rows. *)
TodayFocusStores(base) ==
    {With(base, "sleep_session_record_table", r) : r \in SeqsUpTo(TodaySleepRows, MaxRows)}
    \cup {With(base, "steps_record_table", r) : r \in SeqsUpTo(TodayStepsRows, MaxRows)}
    \cup {With(base, "exercise_session_record_table", r) :
             r \in SeqsUpTo(TodayWorkoutRows, MaxRows)}
    \cup {With(base, "oxygen_saturation_record_table", r) :
             r \in SeqsUpTo(TodaySpo2Rows, MaxRows)}
    \cup {With(With(base, "heart_rate_record_table", [k \in 1..Len(h) |-> HeartRateRow(h[k])]),
               "heart_rate_record_series_table", r) :
             h \in SeqsUpTo(TodayInstants, MaxRows),
             r \in {SetToSeq(S) : S \in SUBSET TodaySampleRows}}

InitToday ==
    /\ now \in NowChoices
    /\ result = NoCall
    /\ Fresh
    /\ dbExists = TRUE
    /\ tables = KNOWN_TABLES
    /\ \E base \in {EmptyStore, TodayStore} : store \in TodayFocusStores(base)

NextToday == GetTodaySummary

SpecToday == InitToday /\ [][NextToday]_vars

-----------------------------------------------------------------------------
(* Stores for the grouped summaries: workouts by exercise type, the stages of
   a sleep session by stage type. *)

(* Two exercise codes of one name (30 and 61, "Hiking"), a code of a name of
   its own, and two codes EXERCISE_TYPES lacks. *)
GroupExerciseCodes == {30, 61, 53, 9999, 9998}

(* A 20-minute workout an hour ago, or one of 40 min 20 s a day before that. *)
GroupWorkoutRows ==
    {WorkoutRow(NowMs - MsPerHour, NowMs - MsPerHour + 20 * MsPerMinute, c) :
        c \in GroupExerciseCodes}
    \cup {WorkoutRow(NowMs - Day - MsPerHour,
                     NowMs - Day - MsPerHour + 40 * MsPerMinute + 20 * MsPerSecond, c) :
             c \in GroupExerciseCodes}

(* Two stage codes SLEEP_STAGES names and two it lacks. *)
GroupStageCodes == {1, 4, 2, 7}

GroupStageRows ==
    LET a == NowMs - Day
    IN  {StageRow(p, c, a, a + 2 * MsPerHour) : p \in {1, 2}, c \in GroupStageCodes}
        \cup {StageRow(p, c, a + 2 * MsPerHour,
                       a + 2 * MsPerHour + 20 * MsPerMinute + 20 * MsPerSecond) :
                 p \in {1, 2}, c \in GroupStageCodes}

GroupSessions ==
    <<SleepRow(NowMs - Day, NowMs - Day + 8 * MsPerHour),
      SleepRow(NowMs - 2 * Day, NowMs - 2 * Day + 8 * MsPerHour)>>

InitGroups ==
    /\ now = [ms |-> NowMs, us |-> 500]
    /\ result = NoCall
    /\ Fresh
    /\ dbExists = TRUE
    /\ tables = KNOWN_TABLES
    /\ LET base == With(EmptyStore, "sleep_session_record_table", GroupSessions)
       IN  \/ \E r \in SeqsUpTo(GroupWorkoutRows, MaxRows) :
                 store = With(base, "exercise_session_record_table", r)
           \/ \E r \in SeqsUpTo(GroupStageRows, MaxRows) :
                 store = With(base, "sleep_stages_table", r)

NextGroups ==
    \/ GetSleepStages
    \/ GetSleepStageSummary
    \/ GetWorkouts
    \/ GetWorkoutSummary

SpecGroups == InitGroups /\ [][NextGroups]_vars

-----------------------------------------------------------------------------
(* Properties of the windowed accessors (SpecWindow). *)

Called(op) == result.op = op
Returned(op) == result.op = op /\ result.out.status = "return"
Value == result.out.value

(* The bounds of the window the last call asked for, (days, end_date) being its
   first two arguments: E - days and E, in the store's milliseconds. *)
AskedEnd == IF result.args[2] = None THEN now.ms ELSE result.args[2][1].ms
AskedStart == AskedEnd - result.args[1] * Day
Asked(t) == AskedStart <= t /\ t <= AskedEnd

(* The rows of table t whose column col lies in the window asked for. *)
AskedRows(t, col) == {i \in 1..Len(store[t]) : Asked(store[t][i][col])}

(* C1: a windowed accessor called with days = N and end_date = E selects a row
   if and only if the row's filtering instant t satisfies E - N days <= t <= E,
   the two bounds included.  What each accessor returns is made of exactly the
   rows in the window: the sleep sessions and workouts by rowid, the SpO2
   readings by value, the step sums, and the heart-rate samples counted by
   their session's start. *)
C1_WindowInclusive ==
    /\ Returned("get_sleep_sessions") =>
          /\ Len(Value) = Cardinality(AskedRows("sleep_session_record_table", "start_time"))
          /\ {Value[k].row_id : k \in 1..Len(Value)}
                = AskedRows("sleep_session_record_table", "start_time")
    /\ Returned("get_workouts") =>
          LET want == {i \in AskedRows("exercise_session_record_table", "start_time") :
                          result.args[3] # None =>
                              store["exercise_session_record_table"][i].exercise_type
                                  = result.args[3][1]}
          IN  /\ Len(Value) = Cardinality(want)
              /\ {Value[k].row_id : k \in 1..Len(Value)} = want
    /\ Returned("get_spo2_readings") =>
          LET want == AskedRows("oxygen_saturation_record_table", "time")
          IN  /\ Len(Value) = Cardinality(want)
              /\ {Value[k].spo2 : k \in 1..Len(Value)}
                    = {store["oxygen_saturation_record_table"][i].percentage : i \in want}
    /\ Returned("get_daily_steps") =>
          LET want == AskedRows("steps_record_table", "local_date_time_start_time")
          IN  SumOver([k \in 1..Len(Value) |-> Value[k].steps], 1..Len(Value))
                 = SumOver([i \in 1..Len(store["steps_record_table"]) |->
                               store["steps_record_table"][i].count], want)
    /\ Returned("get_heart_rate_stats") =>
          LET S == store["heart_rate_record_series_table"]
              want == {i \in 1..Len(S) :
                          S[i].parent_key
                              \in AskedRows("heart_rate_record_table", "start_time")}
          IN  /\ Value.sample_count = Cardinality(want)
              /\ want # {} => /\ Value.min_hr = SetMin({S[i].beats_per_minute : i \in want})
                              /\ Value.max_hr = SetMax({S[i].beats_per_minute : i \in want})
    /\ Returned("get_daily_heart_rate") =>
          LET S == store["heart_rate_record_series_table"]
              want == {i \in 1..Len(S) :
                          S[i].parent_key
                              \in AskedRows("heart_rate_record_table", "start_time")}
          IN  SumOver([k \in 1..Len(Value) |-> Value[k].samples], 1..Len(Value))
                 = Cardinality(want)

(* A call whose window has one row exactly on its start and one exactly on its
   end, both returned. *)
C1_Witness ==
    /\ Returned("get_sleep_sessions")
    /\ Len(Value) = 2
    /\ \E i, j \in 1..Len(store["sleep_session_record_table"]) :
          /\ store["sleep_session_record_table"][i].start_time = AskedStart
          /\ store["sleep_session_record_table"][j].start_time = AskedEnd

-----------------------------------------------------------------------------
(* Properties of every accessor (Spec). *)

(* C3: with no file at the store's path, every accessor ends by raising the
   store-not-found error, whose message names the expected path and tells the
   user to run the sync step; none returns. *)
C3_StoreNotFound ==
    (~dbExists /\ ~Called("none")) =>
        /\ result.out.status = "raise"
        /\ result.out.error.type = "FileNotFoundError"
        /\ result.out.error.message[2] = DbPath
        /\ result.out.error.message[3] = ". Run 'shealth sync' first."

(* A summary accessor, which reaches the store through another accessor, called
   with no file and ending in the store-not-found error. *)
C3_Witness ==
    /\ ~dbExists
    /\ Called("get_workout_summary")
    /\ result.out.status = "raise"
    /\ result.out.error.type = "FileNotFoundError"

(* C4: with the file present, an accessor whose table the file lacks returns
   an empty sequence or zeroed summary and never raises. *)
C4_AbsentTableNeverRaises ==
    (dbExists /\ ~Called("none")) => result.out.status = "return"

(* What each accessor returns against a present store whose tables are empty. *)
EmptyAnswer(op) ==
    CASE op = "get_table_counts" -> [t \in KNOWN_TABLES |-> 0]
      [] op = "get_date_range" -> <<None, None>>
      [] op = "get_heart_rate_stats" ->
            [avg_hr |-> 0, min_hr |-> 0, max_hr |-> 0, sample_count |-> 0]
      [] op = "get_spo2_stats" ->
            [avg_spo2 |-> 0, min_spo2 |-> 0, max_spo2 |-> 0, count |-> 0]
      [] op = "get_workout_summary" ->
            [total_workouts |-> 0, total_minutes |-> 0, by_type |-> <<>>]
      [] op = "get_today_summary" ->
            [date |-> (Today0 + UtcOffsetMs) \div Day, steps |-> 0, sleep_hours |-> 0,
             avg_hr |-> 0, workouts |-> 0, spo2 |-> None]
      [] OTHER -> <<>>

AllTablesPresent == dbExists /\ tables = KNOWN_TABLES

(* C5: against a present store whose tables exist and hold no rows no accessor
   raises; each returns its empty sequence or zeroed summary.  In the today
   summary each field is computed from its own table whatever the other tables
   hold: the field of an empty table is its default, and the field of a table
   holding today's rows is computed from them (steps 8000, sleep 8.0 h, mean
   heart rate 72.5, one workout, SpO2 98). *)
C5_EmptyStoreDefaults ==
    /\ (AllTablesPresent /\ store = EmptyStore /\ ~Called("none")) =>
          /\ result.out.status = "return"
          /\ Value = EmptyAnswer(result.op)
    /\ (AllTablesPresent /\ Called("get_today_summary")) =>
          /\ result.out.status = "return"
          /\ \A t \in {"steps_record_table", "sleep_session_record_table",
                       "exercise_session_record_table",
                       "oxygen_saturation_record_table"} :
                LET f == CASE t = "steps_record_table" -> "steps"
                           [] t = "sleep_session_record_table" -> "sleep_hours"
                           [] t = "exercise_session_record_table" -> "workouts"
                           [] OTHER -> "spo2"
                IN  /\ store[t] = <<>> => Value[f] = EmptyAnswer("get_today_summary")[f]
                    /\ (store[t] = TodayStore[t] /\ store[t] # <<>>) =>
                          Value[f] = (CASE f = "steps" -> 8000
                                        [] f = "sleep_hours" -> 80
                                        [] f = "workouts" -> 1
                                        [] OTHER -> Some(98))
          /\ ( \/ store["heart_rate_record_table"] = <<>>
               \/ store["heart_rate_record_series_table"] = <<>> ) => Value.avg_hr = 0
          /\ ( /\ store["heart_rate_record_table"] = TodayStore["heart_rate_record_table"]
               /\ store["heart_rate_record_series_table"]
                     = TodayStore["heart_rate_record_series_table"] ) => Value.avg_hr = 725

(* The today summary of a store whose steps table alone is empty: steps is its
   default and the other four fields are computed. *)
C5_Witness ==
    /\ AllTablesPresent
    /\ Returned("get_today_summary")
    /\ store["steps_record_table"] = <<>>
    /\ Value.steps = 0
    /\ Value.sleep_hours = 80
    /\ Value.avg_hr = 725
    /\ Value.workouts = 1
    /\ Value.spo2 = Some(98)

-----------------------------------------------------------------------------
(* Properties of the today summary (SpecToday). *)

(* today 00:00 <= t < tomorrow 00:00 *)
IsToday(t) == Today0 <= t /\ t < Today0 + Day

(* The rows of table t whose column col lies in today's window. *)
TodayRows(t, col) == {i \in 1..Len(store[t]) : IsToday(store[t][i][col])}

(* The rows of S whose column col of table t is the greatest. *)
LatestRows(t, col, S) == {i \in S : \A j \in S : store[t][j][col] <= store[t][i][col]}

(* x tenths is n / d rounded to one decimal. *)
IsTenthsOf(x, n, d) ==
    /\ 2 * (x * d - 10 * n) <= d
    /\ 2 * (10 * n - x * d) <= d

(* C2: get_today_summary takes the rows of [today 00:00, tomorrow 00:00) in each
   of its five lookups: a row exactly at today 00:00 is among them, a row exactly
   at tomorrow 00:00 is not.  steps is the sum and workouts the number of those
   rows; sleep_hours, avg_hr and spo2 are taken from those rows only, and are
   their defaults exactly when there are none (spo2 also when the latest
   reading's percentage is 0). *)
C2_TodayHalfOpen ==
    Returned("get_today_summary") =>
        LET steps == TodayRows("steps_record_table", "local_date_time_start_time")
            sleep == TodayRows("sleep_session_record_table", "end_time")
            wo == TodayRows("exercise_session_record_table", "start_time")
            spo2 == LatestRows("oxygen_saturation_record_table", "time",
                               TodayRows("oxygen_saturation_record_table", "time"))
            S == store["heart_rate_record_series_table"]
            hr == {i \in 1..Len(S) :
                      S[i].parent_key \in TodayRows("heart_rate_record_table", "start_time")}
            P == store["oxygen_saturation_record_table"]
        IN  /\ Value.steps = SumOver([i \in 1..Len(store["steps_record_table"]) |->
                                         store["steps_record_table"][i].count], steps)
            /\ Value.workouts = Cardinality(wo)
            /\ (Value.sleep_hours = 0) <=> (sleep = {})
            /\ Value.sleep_hours # 0 =>
                  \E i \in sleep :
                      IsTenthsOf(Value.sleep_hours,
                                 store["sleep_session_record_table"][i].end_time
                                    - store["sleep_session_record_table"][i].start_time,
                                 MsPerHour)
            /\ (Value.avg_hr = 0) <=> (hr = {})
            /\ hr # {} =>
                  IsTenthsOf(Value.avg_hr,
                             SumOver([i \in 1..Len(S) |-> S[i].beats_per_minute], hr),
                             Cardinality(hr))
            /\ spo2 = {} => Value.spo2 = None
            /\ Value.spo2 # None => \E i \in spo2 : Value.spo2 = Some(P[i].percentage)
            /\ (spo2 # {} /\ \A i \in spo2 : P[i].percentage # 0) => Value.spo2 # None

(* A summary of a store with one steps bucket exactly at today 00:00 and one
   exactly at tomorrow 00:00: the first is counted, the second is not. *)
C2_Witness ==
    /\ Returned("get_today_summary")
    /\ store["steps_record_table"]
          = <<StepsRow(Today0 - UtcOffsetMs, Today0, 250),
              StepsRow(Today0 + Day - UtcOffsetMs, Today0 + Day, 250)>>
    /\ Value.steps = 250

(* C10: sleep_hours is the duration in hours, to one decimal, of the sleep
   session with the latest end among the sessions that end in
   [today 00:00, tomorrow 00:00), whenever they started; it is 0 when no session
   ends in the window. *)
C10_SleepLatestEnded ==
    Returned("get_today_summary") =>
        LET T == store["sleep_session_record_table"]
            ended == TodayRows("sleep_session_record_table", "end_time")
            latest == LatestRows("sleep_session_record_table", "end_time", ended)
        IN  /\ ended = {} => Value.sleep_hours = 0
            /\ ended # {} =>
                  \E i \in latest :
                      IsTenthsOf(Value.sleep_hours, T[i].end_time - T[i].start_time,
                                 MsPerHour)

(* A session begun yesterday and ended today beside one that ends at tomorrow
   00:00: the summary reports the first one's 8 hours. *)
C10_Witness ==
    /\ Returned("get_today_summary")
    /\ store["sleep_session_record_table"]
          = <<SleepRow(Today0 - MsPerHour, Today0 + 7 * MsPerHour),
              SleepRow(Today0 + Day - 440 * MsPerMinute, Today0 + Day)>>
    /\ Value.sleep_hours = 80

-----------------------------------------------------------------------------
(* Properties of the code-to-name lookup and of the grouped summaries
   (SpecGroups). *)

(* The label of a code no lookup table names. *)
Unmapped(code) == "Unknown (" \o ToString(code) \o ")"

StageLabel(code) ==
    CASE code = 1 -> "Light" [] code = 4 -> "Deep" [] code = 5 -> "Awake"
      [] code = 6 -> "REM" [] OTHER -> Unmapped(code)

ExerciseLabel(code) ==
    IF code \in DOMAIN EXERCISE_TYPES THEN EXERCISE_TYPES[code] ELSE Unmapped(code)

(* The workouts in the window the last call asked for. *)
AskedWorkouts == AskedRows("exercise_session_record_table", "start_time")
WorkoutCode(i) == store["exercise_session_record_table"][i].exercise_type

(* The stages whose parent is the session the last call asked for. *)
AskedStages ==
    {i \in 1..Len(store["sleep_stages_table"]) :
        store["sleep_stages_table"][i].parent_key = result.args[1]}
StageCode(i) == store["sleep_stages_table"][i].stage_type

(* C6: every name attached to a sleep-stage or exercise-type code is the
   table's name for the code or, for a code the table lacks, the label
   "Unknown (<code>)": get_sleep_stages' stage_name, get_sleep_stage_summary's
   keys, get_workouts' exercise_name and get_workout_summary's by_type keys. *)
C6_LookupNeverMissing ==
    /\ Returned("get_sleep_stages") =>
          \A k \in 1..Len(Value) : Value[k].stage_name = StageLabel(Value[k].stage_type)
    /\ Returned("get_sleep_stage_summary") =>
          DOMAIN Value = {StageLabel(StageCode(i)) : i \in AskedStages}
    /\ Returned("get_workouts") =>
          \A k \in 1..Len(Value) :
              Value[k].exercise_name = ExerciseLabel(Value[k].exercise_type)
    /\ Returned("get_workout_summary") =>
          DOMAIN Value.by_type = {ExerciseLabel(WorkoutCode(i)) : i \in AskedWorkouts}

(* C7: in get_workout_summary total_workouts is the sum of the by_type
   counts, every workout of the window being counted in exactly one entry. *)
C7_TotalsAreGroupSums ==
    Returned("get_workout_summary") =>
        /\ Value.total_workouts = Cardinality(AskedWorkouts)
        /\ Value.total_workouts
              = SumOver([n \in DOMAIN Value.by_type |-> Value.by_type[n].count],
                        DOMAIN Value.by_type)

(* C8: the workouts of the window that share an exercise code c the table
   lacks are grouped under the one entry "Unknown (c)", whose count is their
   number; different such codes have different entries. *)
C8_UnknownCodesGrouped ==
    Returned("get_workout_summary") =>
        \A c \in {WorkoutCode(i) : i \in AskedWorkouts} \ DOMAIN EXERCISE_TYPES :
            /\ Unmapped(c) \in DOMAIN Value.by_type
            /\ Value.by_type[Unmapped(c)].count
                  = Cardinality({i \in AskedWorkouts : WorkoutCode(i) = c})

(* Two workouts of code 9999 and the summary's entry "Unknown (9999)" of count 2. *)
C8_Witness ==
    /\ Returned("get_workout_summary")
    /\ Cardinality({i \in AskedWorkouts : WorkoutCode(i) = 9999}) = 2
    /\ DOMAIN Value.by_type = {"Unknown (9999)"}
    /\ Value.by_type["Unknown (9999)"].count = 2

(* C9: get_sleep_stage_summary(session_id) has one entry per stage code among
   the stages whose parent is the session, keyed by the code's name, its value
   the sum of (stage_end - stage_start) / 60000 over exactly those stages; a
   session without stages gives the empty mapping. *)
C9_StageSummary ==
    Returned("get_sleep_stage_summary") =>
        LET T == store["sleep_stages_table"]
            Dur == [i \in 1..Len(T) |-> T[i].stage_end_time - T[i].stage_start_time]
        IN  /\ DOMAIN Value = {StageLabel(StageCode(i)) : i \in AskedStages}
            /\ \A c \in {StageCode(i) : i \in AskedStages} :
                  Value[StageLabel(c)]
                     = <<SumOver(Dur, {i \in AskedStages : StageCode(i) = c}), MsPerMinute>>
            /\ AskedStages = {} => Value = <<>>

(* The summary of session 1, which has one Light stage of two hours, from a
   store where session 2 has a stage too. *)
C9_Witness ==
    /\ Returned("get_sleep_stage_summary")
    /\ result.args[1] = 1
    /\ Cardinality(AskedStages) = 1
    /\ Len(store["sleep_stages_table"]) = 2
    /\ Value = ("Light" :> <<2 * MsPerHour, MsPerMinute>>)

-----------------------------------------------------------------------------
(* Properties of the today summary's SpO2 and heart-rate fields (SpecToday). *)

(* C11: spo2 is the percentage of the most recent SpO2 reading of
   [today 00:00, tomorrow 00:00) whenever a reading lies in that window, whatever
   the stored percentage (0 and values above 100 included); spo2 is None if and
   only if no reading lies in the window. *)
C11_Spo2Passthrough ==
    Returned("get_today_summary") =>
        LET P == store["oxygen_saturation_record_table"]
            inside == TodayRows("oxygen_saturation_record_table", "time")
            latest == LatestRows("oxygen_saturation_record_table", "time", inside)
        IN  /\ (Value.spo2 = None) <=> (inside = {})
            /\ inside # {} => \E i \in latest : Value.spo2 = Some(P[i].percentage)

-----------------------------------------------------------------------------
(* Stores for the heart-rate aggregation: sessions that start inside and
   outside the windows, each sample taken at an instant of its own. *)

(* Inside today and the window ending now; before today but inside the window
   ending now; inside today but after now; before every window. *)
HeartSessionInstants ==
    {Today0 + 8 * MsPerHour, Today0 - 1, NowMs + 1, NowMs - (MaxDays + 2) * Day}

(* A sample's own instant: inside every window, or before every window. *)
HeartSampleInstants == {Today0 + 9 * MsPerHour, NowMs - (MaxDays + 3) * Day}

HeartSampleRows ==
    {SampleRow(p, b, t) : p \in 1..MaxRows, b \in {60, 75}, t \in HeartSampleInstants}

InitHeart ==
    /\ now = [ms |-> NowMs, us |-> 500]
    /\ result = NoCall
    /\ Fresh
    /\ dbExists = TRUE
    /\ tables = KNOWN_TABLES
    /\ \E h \in SeqsUpTo(HeartSessionInstants, MaxRows), S \in SUBSET HeartSampleRows :
          /\ Cardinality(S) <= MaxRows
          /\ store = With(With(EmptyStore, "heart_rate_record_table",
                               [k \in 1..Len(h) |-> HeartRateRow(h[k])]),
                          "heart_rate_record_series_table", SetToSeq(S))

NextHeart ==
    \/ GetHeartRateStats
    \/ GetDailyHeartRate
    \/ GetTodaySummary

SpecHeart == InitHeart /\ [][NextHeart]_vars

(* The samples whose parent is one of the sessions H. *)
SamplesOf(H) ==
    {i \in 1..Len(store["heart_rate_record_series_table"]) :
        store["heart_rate_record_series_table"][i].parent_key \in H}

BpmOf(i) == store["heart_rate_record_series_table"][i].beats_per_minute

(* The local calendar day, as a day number, of the start of sample i's session. *)
SessionDay(i) ==
    (store["heart_rate_record_table"][
        store["heart_rate_record_series_table"][i].parent_key].start_time
     + UtcOffsetMs) \div Day

(* C12: in get_heart_rate_stats, get_daily_heart_rate and get_today_summary a
   sample is counted if and only if the start of its parent session lies in the
   window, wherever the sample's own instant lies; the average (to one decimal),
   minimum, maximum and number of samples are those of exactly the counted
   samples, per day of the session's start in get_daily_heart_rate. *)
C12_HeartRateBySessionStart ==
    /\ Returned("get_heart_rate_stats") =>
          LET want == SamplesOf(AskedRows("heart_rate_record_table", "start_time"))
          IN  /\ Value.sample_count = Cardinality(want)
              /\ want = {} => Value.avg_hr = 0 /\ Value.min_hr = 0 /\ Value.max_hr = 0
              /\ want # {} =>
                    /\ Value.min_hr = SetMin({BpmOf(i) : i \in want})
                    /\ Value.max_hr = SetMax({BpmOf(i) : i \in want})
                    /\ IsTenthsOf(Value.avg_hr,
                                  SumOver([i \in want |-> BpmOf(i)], want),
                                  Cardinality(want))
    /\ Returned("get_daily_heart_rate") =>
          LET want == SamplesOf(AskedRows("heart_rate_record_table", "start_time"))
          IN  /\ {Value[k].date : k \in 1..Len(Value)} = {SessionDay(i) : i \in want}
              /\ Len(Value) = Cardinality({SessionDay(i) : i \in want})
              /\ \A k \in 1..Len(Value) :
                    LET day == {i \in want : SessionDay(i) = Value[k].date}
                    IN  /\ Value[k].samples = Cardinality(day)
                        /\ Value[k].min_hr = SetMin({BpmOf(i) : i \in day})
                        /\ Value[k].max_hr = SetMax({BpmOf(i) : i \in day})
                        /\ IsTenthsOf(Value[k].avg_hr,
                                      SumOver([i \in day |-> BpmOf(i)], day),
                                      Cardinality(day))
    /\ Returned("get_today_summary") =>
          LET want == SamplesOf(TodayRows("heart_rate_record_table", "start_time"))
          IN  /\ want = {} => Value.avg_hr = 0
              /\ want # {} =>
                    IsTenthsOf(Value.avg_hr,
                               SumOver([i \in want |-> BpmOf(i)], want),
                               Cardinality(want))

(* Two sessions, the first starting inside the window asked for and the second
   before it; the first's sample (75) was taken before the window and the
   second's (60) inside it: only the 75 is counted. *)
C12_Witness ==
    /\ Returned("get_heart_rate_stats")
    /\ Len(store["heart_rate_record_table"]) = 2
    /\ Asked(store["heart_rate_record_table"][1].start_time)
    /\ ~Asked(store["heart_rate_record_table"][2].start_time)
    /\ \E i, j \in 1..Len(store["heart_rate_record_series_table"]) :
          LET S == store["heart_rate_record_series_table"]
          IN  /\ S[i].parent_key = 1 /\ S[i].beats_per_minute = 75
              /\ ~Asked(S[i].epoch_millis)
              /\ S[j].parent_key = 2 /\ S[j].beats_per_minute = 60
              /\ Asked(S[j].epoch_millis)
    /\ Value = [avg_hr |-> 750, min_hr |-> 75, max_hr |-> 75, sample_count |-> 1]

-----------------------------------------------------------------------------
(* Frame and connection properties of every accessor (Spec). *)

(* C13: no accessor call, returning or raising, changes the store: the file
   exists after the call exactly if it did before, with the same tables holding
   the same rows in the same order. *)
C13_NeverWrites ==
    [][dbExists' = dbExists /\ tables' = tables /\ store' = store]_vars

(* A call that failed on a table the file lacks and a store that still holds
   its sample rows. *)
C13_Witness ==
    /\ Called("get_spo2_stats")
    /\ result.out.status = "raise"
    /\ dbExists
    /\ tables = KNOWN_TABLES \ {"oxygen_saturation_record_table"}
    /\ store = Restrict(SampleStore, tables)

(* C14: whenever an accessor call has ended, by returning, by raising the
   store-not-found error or by raising from a failed query, no connection is
   open. *)
C14_ConnectionsClosed == open = 0

(* A call whose query failed after the connection was opened. *)
C14_Witness ==
    /\ Called("get_daily_heart_rate")
    /\ result.out.status = "raise"
    /\ result.out.error.type = "DatabaseError"
    /\ Opened(result.out) = 1
    /\ open = 0

-----------------------------------------------------------------------------
(* The process-wide store handle (get_db). *)

(* HealthDatabase(): a new object, told from the earlier ones by its number. *)
HealthDatabase == constructed + 1

(* get_db() making a new object at every call. *)
get_db_uncached == HealthDatabase

(* `if _db is None: _db = HealthDatabase()` and `return _db`: the handle that
   get_db() returns, which it also leaves in _db. *)
get_db == IF _db = None THEN HealthDatabase ELSE _db[1]

(* The effect of one get_db() on the global and on the number of objects made. *)
GotDb ==
    /\ _db' = Some(get_db)
    /\ constructed' = IF _db' = _db THEN constructed ELSE constructed + 1

GetDb ==
    /\ result' = Call("get_db", <<>>, Return(get_db))
    /\ GotDb
    /\ UNCHANGED <<now, dbExists, tables, store, open, trace, configVars, syncVars>>

(* The stores a handle may be used against: no file, or a file with every
   table, empty or holding rows. *)
InitHandle ==
    /\ now \in NowChoices
    /\ result = NoCall
    /\ Fresh
    /\ \/ dbExists = FALSE /\ tables = {} /\ store = EmptyStore
       \/ dbExists = TRUE /\ tables = KNOWN_TABLES
                          /\ store \in {EmptyStore, SampleStore, TodayStore}

NextHandle ==
    \/ GetDb
    \/ Next

SpecHandle == InitHandle /\ [][NextHandle]_vars

(* C15: no HealthDatabase is made before the first get_db(); the first get_db()
   makes one, the only one ever made, and every get_db() returns it.  Only
   get_db() changes the global handle or makes an object, and only when the
   global is still None. *)
C15_HandleMadeOnce ==
    /\ [](/\ constructed <= 1
          /\ (_db = None) <=> (constructed = 0)
          /\ Called("get_db") => (result.out = Return(1) /\ _db = Some(1)))
    /\ [][(_db' # _db \/ constructed' # constructed) =>
              (result'.op = "get_db" /\ _db = None /\ constructed = 0)]_vars

(* A get_db() that has returned the one object made, which the global holds. *)
C15_Witness ==
    /\ Called("get_db")
    /\ Value = 1
    /\ _db = Some(1)
    /\ constructed = 1

-----------------------------------------------------------------------------
(* Input validation of the CLI (cli.py). *)

MAX_DAYS == 3650
MIN_DAYS == 1

(* raise click.BadParameter(message) *)
BadParameter(message) == [type |-> "BadParameter", message |-> message]

(* The callback accepting every value. *)
validate_days_unchecked(value) == Return(value)

validate_days(value) ==
    IF value < MIN_DAYS
    THEN Raise(BadParameter(<<"Must be at least ", MIN_DAYS>>))
    ELSE IF value > MAX_DAYS
    THEN Raise(BadParameter(<<"Cannot exceed ", MAX_DAYS, " days (10 years)">>))
    ELSE Return(value)

-----------------------------------------------------------------------------
(* The report's energy score (cli.py, report).  The floats of the code are
   exact fractions <<n, d>> in lowest terms, n >= 0 and d > 0. *)

RECURSIVE GCD(_, _)
GCD(a, b) == IF b = 0 THEN a ELSE GCD(b, a % b)

Frac(n, d) == IF n = 0 THEN <<0, 1>> ELSE <<n \div GCD(n, d), d \div GCD(n, d)>>

FracAdd(x, y) == Frac(x[1] * y[2] + y[1] * x[2], x[2] * y[2])
FracMul(x, y) == Frac(x[1] * y[1], x[2] * y[2])
FracDiv(x, y) == Frac(x[1] * y[2], x[2] * y[1])
FracLeq(x, y) == x[1] * y[2] <= y[1] * x[2]
FracOf(k) == <<k, 1>>

(* The score left as it is, above 100 too. *)
Uncapped(x) == x

(* min(100, x) *)
Capped(x) == IF FracLeq(FracOf(100), x) THEN FracOf(100) ELSE x

(* min(100, (avg / goal) * 100) if goal > 0 else 0 *)
GoalScore(avg, goal) ==
    IF goal > 0 THEN Capped(FracMul(FracDiv(avg, FracOf(goal)), FracOf(100)))
    ELSE FracOf(0)

(* The workout score against a baseline of one workout a day. *)
WorkoutScoreDaily(total_workouts, days) ==
    Capped(FracMul(FracDiv(FracOf(total_workouts), FracOf(days)), FracOf(100)))

(* min(100, (total_workouts / (days / 7 * 3)) * 100) *)
WorkoutScore(total_workouts, days) ==
    Capped(FracMul(FracDiv(FracOf(total_workouts),
                           FracMul(FracDiv(FracOf(days), FracOf(7)), FracOf(3))),
                   FracOf(100)))

(* sleep_score * 0.4 + steps_score * 0.3 + workout_score * 0.3 *)
EnergyScore(sleep_score, steps_score, workout_score) ==
    FracAdd(FracAdd(FracMul(sleep_score, Frac(4, 10)), FracMul(steps_score, Frac(3, 10))),
            FracMul(workout_score, Frac(3, 10)))

(* The four scores of the report. *)
Scores(sleep_avg, steps_avg, total_workouts, days, sleep_goal, step_goal) ==
    LET sleep_score == GoalScore(sleep_avg, sleep_goal)
        steps_score == GoalScore(steps_avg, step_goal)
        workout_score == WorkoutScore(total_workouts, days)
    IN  [sleep_score |-> sleep_score,
         steps_score |-> steps_score,
         workout_score |-> workout_score,
         energy_score |-> EnergyScore(sleep_score, steps_score, workout_score)]

-----------------------------------------------------------------------------
(* The scores over inputs of their own: averages below, at and above the
   goals, goals that are positive, zero and negative, periods of a day, of whole
   weeks and of ten years. *)

ScoreSleepAvgs == {Frac(0, 1), Frac(4, 1), Frac(22, 3), Frac(8, 1), Frac(12, 1)}
ScoreStepsAvgs == {FracOf(0), FracOf(5000), FracOf(8000), FracOf(10000), FracOf(25000)}
ScoreWorkouts == {0, 1, 3, 6, 2000}
ScoreDays == {MIN_DAYS, 7, 14, MAX_DAYS}
SleepGoals == {-1, 0, 7, 8}
StepGoals == {-10000, 0, 8000, 10000}

(* The inputs wait in result.args for the scores to be computed from them. *)
InitScore ==
    /\ now = [ms |-> NowMs, us |-> 500]
    /\ \E sleep_avg \in ScoreSleepAvgs, steps_avg \in ScoreStepsAvgs,
          total_workouts \in ScoreWorkouts, days \in ScoreDays,
          sleep_goal \in SleepGoals, step_goal \in StepGoals :
           result = Call("none",
                         <<sleep_avg, steps_avg, total_workouts, days, sleep_goal, step_goal>>,
                         Return(None))
    /\ Fresh
    /\ dbExists = FALSE
    /\ tables = {}
    /\ store = EmptyStore

ComputeScores ==
    /\ result' = Call("scores", result.args,
                      Return(Scores(result.args[1], result.args[2], result.args[3],
                                    result.args[4], result.args[5], result.args[6])))
    /\ UNCHANGED <<now, dbExists, tables, store, open, _db, constructed, trace, configVars, syncVars>>

NextScore == ComputeScores

SpecScore == InitScore /\ [][NextScore]_vars

(* 0 <= x <= 100 *)
InPercentRange(x) == 0 <= x[1] /\ x[1] <= 100 * x[2]

(* C18: for averages and a workout count that are not negative, days in
   1..3650 and any goals, those that are zero or negative included, each of
   sleep_score, steps_score and workout_score lies in [0, 100] and so does the
   energy score. *)
C18_ScoresInRange ==
    Returned("scores") =>
        /\ InPercentRange(Value.sleep_score)
        /\ InPercentRange(Value.steps_score)
        /\ InPercentRange(Value.workout_score)
        /\ InPercentRange(Value.energy_score)

(* Averages and workouts far above the goals: every score is 100, none more. *)
C18_Witness ==
    /\ Returned("scores")
    /\ result.args = <<Frac(12, 1), FracOf(25000), 2000, MIN_DAYS, 8, 10000>>
    /\ Value.sleep_score = FracOf(100)
    /\ Value.steps_score = FracOf(100)
    /\ Value.workout_score = FracOf(100)
    /\ Value.energy_score = FracOf(100)

(* min(100, x) of the reference formula. *)
AtMost100(x) == IF FracLeq(x, FracOf(100)) THEN x ELSE FracOf(100)

(* min(100, avg / goal * 100), and 0 when goal <= 0. *)
ReferenceGoalScore(avg, goal) ==
    IF goal <= 0 THEN FracOf(0)
    ELSE AtMost100(Frac(100 * avg[1], avg[2] * goal))

(* C19: sleep_score = min(100, avg_sleep / sleep_goal * 100), 0 when
   sleep_goal <= 0; steps_score = min(100, avg_steps / step_goal * 100), 0 when
   step_goal <= 0; workout_score = min(100, total_workouts / (days / 7 * 3) * 100);
   energy_score = 0.4 sleep_score + 0.3 steps_score + 0.3 workout_score.  Hence
   inputs at goal (avg_sleep = sleep_goal, avg_steps = step_goal, 3 workouts per
   7 days) give 100 four times, and avg_sleep = 0 gives sleep_score 0 and an
   energy score of at most 60. *)
C19_ScoreFormula ==
    Returned("scores") =>
        LET sleep_avg == result.args[1]
            steps_avg == result.args[2]
            total_workouts == result.args[3]
            days == result.args[4]
            sleep_goal == result.args[5]
            step_goal == result.args[6]
        IN  /\ Value.sleep_score = ReferenceGoalScore(sleep_avg, sleep_goal)
            /\ Value.steps_score = ReferenceGoalScore(steps_avg, step_goal)
            /\ Value.workout_score = AtMost100(Frac(700 * total_workouts, 3 * days))
            /\ FracMul(FracOf(10), Value.energy_score)
                  = FracAdd(FracMul(FracOf(4), Value.sleep_score),
                            FracAdd(FracMul(FracOf(3), Value.steps_score),
                                    FracMul(FracOf(3), Value.workout_score)))
            /\ ( /\ sleep_goal > 0 /\ sleep_avg = FracOf(sleep_goal)
                 /\ step_goal > 0 /\ steps_avg = FracOf(step_goal)
                 /\ 7 * total_workouts = 3 * days ) =>
                     /\ Value.sleep_score = FracOf(100)
                     /\ Value.steps_score = FracOf(100)
                     /\ Value.workout_score = FracOf(100)
                     /\ Value.energy_score = FracOf(100)
            /\ sleep_avg = FracOf(0) =>
                     /\ Value.sleep_score = FracOf(0)
                     /\ FracLeq(Value.energy_score, FracOf(60))

(* Two weeks at goal: 8 h of sleep against 8, 10000 steps against 10000, six
   workouts; the energy score is 100. *)
C19_Witness ==
    /\ Returned("scores")
    /\ result.args = <<Frac(8, 1), FracOf(10000), 6, 14, 8, 10000>>
    /\ Value.energy_score = FracOf(100)

-----------------------------------------------------------------------------
(* The commands of the CLI that take --days (cli.py): sleep, steps, heart,
   workout, spo2 and report.  A command's outcome is what it has to show, as
   the JSON output holds it; the figures derived only for display (averages,
   percentages, sparklines, tables) are left out.  The clock does not move
   between the calls of one command.  The --week and --month presets of steps
   and the status, today and sync commands are not modelled. *)

(* The values of --days the commands are called with: the one below MIN_DAYS,
   the days of the model's windows, and the one above MAX_DAYS. *)
CliDays == {MIN_DAYS - 1} \cup Days \cup {MAX_DAYS + 1}

(* The goals the configuration holds when a command reads them: the defaults,
   or zero. *)
CliGoals == {[sleep_hours |-> 8, daily_steps |-> 10000], [sleep_hours |-> 0, daily_steps |-> 0]}

(* --date: none, or yesterday as a day number. *)
TargetDates == {None, Some((NowMs + UtcOffsetMs) \div Day - 1)}

(* --type: none, empty, names of exercise types in several cases (two codes
   are named "Hiking", code 0 is named "Unknown"), and a name no type has. *)
WorkoutTypes ==
    {None, Some(""), Some("Hiking"), Some("HIKING"), Some("running"), Some("unknown"),
     Some("Zumba")}

(* The lower-case form of every string of the model that has an upper-case
   letter. *)
LowerCase ==
    "Unknown" :> "unknown" @@ "Badminton" :> "badminton"
    @@ "Weightlifting" :> "weightlifting" @@ "Boxing" :> "boxing"
    @@ "Cricket" :> "cricket" @@ "Dancing" :> "dancing" @@ "Elliptical" :> "elliptical"
    @@ "Fencing" :> "fencing" @@ "Football (American)" :> "football (american)"
    @@ "Frisbee" :> "frisbee" @@ "Cycling" :> "cycling" @@ "Golf" :> "golf"
    @@ "Gymnastics" :> "gymnastics" @@ "Handball" :> "handball" @@ "HIIT" :> "hiit"
    @@ "Hiking" :> "hiking" @@ "Hockey" :> "hockey" @@ "Running" :> "running"
    @@ "Skating (Ice)" :> "skating (ice)" @@ "Martial Arts" :> "martial arts"
    @@ "Pilates" :> "pilates" @@ "Racquetball" :> "racquetball"
    @@ "Rock Climbing" :> "rock climbing" @@ "Rowing" :> "rowing"
    @@ "Sailing" :> "sailing" @@ "Skating" :> "skating" @@ "Skiing" :> "skiing"
    @@ "Snowboarding" :> "snowboarding" @@ "Walking" :> "walking"
    @@ "Soccer" :> "soccer" @@ "Squash" :> "squash" @@ "Swimming" :> "swimming"
    @@ "Table Tennis" :> "table tennis" @@ "Tennis" :> "tennis"
    @@ "Volleyball" :> "volleyball" @@ "Yoga" :> "yoga" @@ "Stretching" :> "stretching"
    @@ "HIKING" :> "hiking" @@ "Zumba" :> "zumba"

(* str.lower() *)
Lower(s) == IF s \in DOMAIN LowerCase THEN LowerCase[s] ELSE s

(* A name no exercise type has is looked for as the code -1, which no workout has. *)
type_code_strict(workout_type) ==
    LET hits == {c \in DOMAIN EXERCISE_TYPES :
                    workout_type # None /\ Lower(EXERCISE_TYPES[c]) = Lower(workout_type[1])}
    IN  IF hits = {} THEN Some(-1) ELSE Some(SetMin(hits))

(* `type_code = None`, and for a workout_type that is given and not empty the
   first code of EXERCISE_TYPES (the dict is written in ascending code order)
   whose name is the type in lower case. *)
type_code(workout_type) ==
    LET hits == {c \in DOMAIN EXERCISE_TYPES :
                    /\ workout_type # None
                    /\ workout_type[1] # ""
                    /\ Lower(EXERCISE_TYPES[c]) = Lower(workout_type[1])}
    IN  IF hits = {} THEN None ELSE Some(SetMin(hits))

(* The calls a command gets to make: those up to the first one that raises. *)
UpToRaise(calls) ==
    LET bad == {k \in 1..Len(calls) : calls[k].out.status = "raise"}
    IN  IF bad = {} THEN calls ELSE SubSeq(calls, 1, SetMin(bad))

(* console.print(message) *)
Printed(message) == [printed |-> message]

(* The outcome of the body of a command that makes the calls and has output to
   show when none raises: `except FileNotFoundError as e: console.print(e)`,
   any other error leaves the command. *)
CommandOutcome(calls, output) ==
    LET made == UpToRaise(calls)
        last == made[Len(made)].out
    IN  IF last.status = "return" THEN Return(output)
        ELSE IF last.error.type = "FileNotFoundError" THEN Return(Printed(last.error.message))
        ELSE last

(* A command called with --days: click runs validate_days while it parses the
   options, and calls the command only when every option is accepted.  The
   command then takes the store handle and makes its calls. *)
Command(name, args, days, calls, output) ==
    LET checked == validate_days(days)
    IN  IF checked.status = "raise"
        THEN /\ result' = Call(name, args, checked)
             /\ trace' = <<>>
             /\ UNCHANGED <<now, dbExists, tables, store, open, _db, constructed, configVars, syncVars>>
        ELSE /\ result' = Call(name, args, CommandOutcome(calls, output))
             /\ trace' = <<Call("get_db", <<>>, Return(get_db))>> \o UpToRaise(calls)
             /\ GotDb
             /\ open' = open + SumOver([k \in 1..Len(trace') |->
                                           IF trace'[k].op = "get_db" THEN 0
                                           ELSE Opened(trace'[k].out) - Closed(trace'[k].out)],
                                       1..Len(trace'))
             /\ dbExists' = ExistsAfterConnection
             /\ UNCHANGED <<now, tables, store, configVars, syncVars>>

(* datetime.strptime(target_date, "%Y-%m-%d"): 00:00 local time of the day,
   given as a day number. *)
Strptime(target_date) == [ms |-> target_date * Day - UtcOffsetMs, us |-> 0]

SleepCalls(days, end_date) ==
    LET got == get_sleep_sessions(days, end_date)
    IN  <<Call("get_sleep_sessions", <<days, end_date>>, got)>>
        \o (IF got.status = "raise" THEN <<>>
            ELSE [k \in 1..Len(got.value) |->
                     Call("get_sleep_stage_summary", <<got.value[k].row_id>>,
                          get_sleep_stage_summary(got.value[k].row_id))])

(* all_stages, in milliseconds: the stages of a name other than the four are
   not added. *)
SleepOutput(days, goal_hours, calls) ==
    LET sessions == calls[1].out.value
    IN  IF Len(sessions) = 0 THEN Printed("No sleep data found for this period")
        ELSE [period_days |-> days,
              sessions |-> Len(sessions),
              goal_hours |-> goal_hours,
              all_stages |->
                  [n \in {"Light", "Deep", "REM", "Awake"} |->
                      SumOver([k \in 2..Len(calls) |->
                                  IF n \in DOMAIN calls[k].out.value
                                  THEN calls[k].out.value[n][1] ELSE 0],
                              2..Len(calls))],
              sessions_data |-> sessions]

sleep ==
    \E days \in CliDays, target_date \in TargetDates, goals \in CliGoals :
        LET end_date == IF target_date = None THEN Some(now)
                        ELSE Some(Strptime(target_date[1]))
        IN  Command("sleep", <<days, target_date>>, days,
                    SleepCalls(days, end_date),
                    SleepOutput(days, goals.sleep_hours, SleepCalls(days, end_date)))

StepsOutput(days, goal, calls) ==
    LET daily_steps == calls[1].out.value
        all == 1..Len(daily_steps)
        total == SumOver([k \in all |-> daily_steps[k].steps], all)
        most == SetMax({daily_steps[k].steps : k \in all})
    IN  IF Len(daily_steps) = 0 THEN Printed("No step data found for this period")
        ELSE [period_days |-> days,
              total_steps |-> total,
              daily_average |-> RoundDiv(total, Len(daily_steps)),
              goal |-> goal,
              days_over_goal |-> Cardinality({k \in all : daily_steps[k].steps >= goal}),
              max_day |-> daily_steps[SetMin({k \in all : daily_steps[k].steps = most})],
              daily_data |-> daily_steps]

steps ==
    \E days \in CliDays, goals \in CliGoals :
        LET calls == <<Call("get_daily_steps", <<days, None>>, get_daily_steps(days, None))>>
        IN  Command("steps", <<days>>, days, calls,
                    StepsOutput(days, goals.daily_steps, calls))

HeartOutput(days, calls) ==
    IF calls[1].out.value.sample_count = 0
    THEN Printed("No heart rate data found for this period")
    ELSE [period_days |-> days,
          statistics |-> calls[1].out.value,
          daily_data |-> calls[2].out.value]

heart ==
    \E days \in CliDays :
        LET calls == <<Call("get_heart_rate_stats", <<days, None>>,
                            get_heart_rate_stats(days, None)),
                       Call("get_daily_heart_rate", <<days, None>>,
                            get_daily_heart_rate(days, None))>>
        IN  Command("heart", <<days>>, days, calls, HeartOutput(days, calls))

WorkoutOutput(days, calls) ==
    IF calls[1].out.value.total_workouts = 0
    THEN Printed("No workouts found for this period")
    ELSE [period_days |-> days,
          summary |-> calls[1].out.value,
          workouts |-> calls[2].out.value]

workout ==
    \E days \in CliDays, workout_type \in WorkoutTypes :
        LET calls == <<Call("get_workout_summary", <<days, None>>,
                            get_workout_summary(days, None)),
                       Call("get_workouts", <<days, None, type_code(workout_type)>>,
                            get_workouts(days, None, type_code(workout_type)))>>
        IN  Command("workout", <<days, workout_type>>, days, calls,
                    WorkoutOutput(days, calls))

Spo2Output(days, calls) ==
    IF calls[1].out.value.count = 0
    THEN Printed("No SpO2 data found for this period")
    ELSE [period_days |-> days,
          statistics |-> calls[1].out.value,
          readings |-> calls[2].out.value]

spo2 ==
    \E days \in CliDays :
        LET calls == <<Call("get_spo2_stats", <<days, None>>, get_spo2_stats(days, None)),
                       Call("get_spo2_readings", <<days, None>>,
                            get_spo2_readings(days, None))>>
        IN  Command("spo2", <<days>>, days, calls, Spo2Output(days, calls))

(* sleep_avg = mean of duration_minutes / 60 and steps_avg = mean of steps, 0
   for an empty frame; the scores before they are rounded for display. *)
ReportOutput(days, sleep_goal, step_goal, calls) ==
    LET sleep_sessions == calls[1].out.value
        daily_steps == calls[2].out.value
        slept == SumOver([k \in 1..Len(sleep_sessions) |->
                             sleep_sessions[k].duration_minutes[1]],
                         1..Len(sleep_sessions))
        walked == SumOver([k \in 1..Len(daily_steps) |-> daily_steps[k].steps],
                          1..Len(daily_steps))
        sleep_avg == IF Len(sleep_sessions) = 0 THEN FracOf(0)
                     ELSE Frac(slept, MsPerMinute * Len(sleep_sessions) * 60)
        steps_avg == IF Len(daily_steps) = 0 THEN FracOf(0)
                     ELSE Frac(walked, Len(daily_steps))
    IN  [period_days |-> days,
         sleep_avg |-> sleep_avg,
         sessions |-> Len(sleep_sessions),
         steps_avg |-> steps_avg,
         total_workouts |-> calls[4].out.value.total_workouts,
         scores |-> Scores(sleep_avg, steps_avg, calls[4].out.value.total_workouts,
                           days, sleep_goal, step_goal),
         heart |-> calls[3].out.value]

report ==
    \E days \in CliDays, goals \in CliGoals :
        LET calls == <<Call("get_sleep_sessions", <<days, None>>,
                            get_sleep_sessions(days, None)),
                       Call("get_daily_steps", <<days, None>>, get_daily_steps(days, None)),
                       Call("get_heart_rate_stats", <<days, None>>,
                            get_heart_rate_stats(days, None)),
                       Call("get_workout_summary", <<days, None>>,
                            get_workout_summary(days, None))>>
        IN  Command("report", <<days>>, days, calls,
                    ReportOutput(days, goals.sleep_hours, goals.daily_steps, calls))

-----------------------------------------------------------------------------
(* The stores the commands run against: no file, a file of sample rows
   without the SpO2 table, and a file with every table, empty or holding rows;
   the workouts also chosen freely among three exercise codes, two of them of
   one name. *)

CliWorkoutRows ==
    {WorkoutRow(NowMs - MsPerHour, NowMs - MsPerHour + 20 * MsPerMinute, c) :
        c \in {30, 61, 33}}

CliStores ==
    {EmptyStore, SampleStore, TodayStore}
    \cup {With(SampleStore, "exercise_session_record_table", r) :
             r \in SeqsUpTo(CliWorkoutRows, MaxRows)}

InitCli ==
    /\ now = [ms |-> NowMs, us |-> 500]
    /\ result = NoCall
    /\ Fresh
    /\ \/ /\ dbExists = FALSE
          /\ tables = {}
          /\ store = EmptyStore
       \/ /\ dbExists = TRUE
          /\ tables = KNOWN_TABLES \ {"oxygen_saturation_record_table"}
          /\ store = Restrict(SampleStore, tables)
       \/ /\ dbExists = TRUE
          /\ tables = KNOWN_TABLES
          /\ store \in CliStores

NextCli ==
    \/ sleep
    \/ steps
    \/ heart
    \/ workout
    \/ spo2
    \/ report

SpecCli == InitCli /\ [][NextCli]_vars

-----------------------------------------------------------------------------
(* Properties of the commands (SpecCli). *)

DaysCommands == {"sleep", "steps", "heart", "workout", "spo2", "report"}

(* The last command was refused by the validation of --days. *)
Rejected ==
    /\ result.out.status = "raise"
    /\ result.out.error.type = "BadParameter"

(* The values of --days the validation is checked on, one by one. *)
ValidatedDays == (MIN_DAYS - 2)..(MAX_DAYS + 2)

(* C16: each of sleep, steps, heart, workout, spo2 and report refuses a --days
   below 1 or above 3650 as a bad parameter, and then no store handle has been
   taken and no accessor called: the command leaves no call behind and changes
   neither the global handle nor the open connections.  Every value in 1..3650
   passes the validation (looked at for each value of -1..3652 in the initial
   states), and the command then starts by taking the store handle. *)
C16_DaysValidatedFirst ==
    /\ [](/\ Called("none") =>
                \A v \in ValidatedDays :
                    (validate_days(v) = Return(v)) <=> (1 <= v /\ v <= 3650)
          /\ result.op \in DaysCommands =>
                /\ Rejected <=> (result.args[1] < 1 \/ result.args[1] > 3650)
                /\ Rejected => trace = <<>>
                /\ ~Rejected => (trace # <<>> /\ trace[1].op = "get_db"))
    /\ [][(result'.op \in DaysCommands /\ Rejected') =>
              (_db' = _db /\ constructed' = constructed /\ open' = open)]_vars

(* report --days 3651 against a store that is there: refused, nothing called,
   the handle never made. *)
C16_Witness ==
    /\ Called("report")
    /\ result.args[1] = 3651
    /\ Rejected
    /\ dbExists
    /\ store = SampleStore
    /\ trace = <<>>
    /\ _db = None
    /\ constructed = 0

(* The workouts that start in the window of the last command, whose first
   argument is --days: [now - days, now]. *)
CommandWorkouts ==
    {i \in 1..Len(store["exercise_session_record_table"]) :
        /\ now.ms - result.args[1] * Day <= store["exercise_session_record_table"][i].start_time
        /\ store["exercise_session_record_table"][i].start_time <= now.ms}

(* The --type of the last workout command is given and is the name of no
   exercise type, whatever the case of its letters. *)
UnknownCategory ==
    /\ result.args[2] # None
    /\ result.args[2][1] # ""
    /\ \A c \in DOMAIN EXERCISE_TYPES : Lower(EXERCISE_TYPES[c]) # Lower(result.args[2][1])

(* C17: the workout command given a --type that is the name of no exercise
   type does not fail on it: it calls get_workouts with no exercise_type, and
   against a store that has the workouts table the call returns every workout
   of the window, which the command shows unless the window is empty. *)
C17_UnknownCategoryNoFilter ==
    (Called("workout") /\ ~Rejected /\ UnknownCategory) =>
        /\ dbExists => (/\ Len(trace) = 3
                        /\ trace[3].op = "get_workouts"
                        /\ trace[3].args = <<result.args[1], None, None>>)
        /\ (dbExists /\ "exercise_session_record_table" \in tables) =>
              /\ trace[3].out.status = "return"
              /\ {trace[3].out.value[k].row_id : k \in 1..Len(trace[3].out.value)}
                    = CommandWorkouts
              /\ Len(trace[3].out.value) = Cardinality(CommandWorkouts)
              /\ result.out.status = "return"
              /\ CommandWorkouts # {} => result.out.value.workouts = trace[3].out.value
              /\ CommandWorkouts = {} =>
                    result.out.value = Printed("No workouts found for this period")

(* workout --type Zumba against a store with a Hiking and a Running workout in
   the window: both are listed. *)
C17_Witness ==
    /\ Called("workout")
    /\ result.args[2] = Some("Zumba")
    /\ result.out.status = "return"
    /\ Len(store["exercise_session_record_table"]) = 2
    /\ {store["exercise_session_record_table"][i].exercise_type : i \in CommandWorkouts}
          = {30, 33}
    /\ Len(result.out.value.workouts) = 2

-----------------------------------------------------------------------------
(* Stores for the daily step sums: buckets on both sides of a change of day
   and on the bounds of the windows. *)

(* local_date_time_start_time: the last millisecond of a day and the first two
   of the next, the two bounds of the one-day window, and the milliseconds
   just outside of them. *)
StepsInstants ==
    {5 * Day - 1, 5 * Day, 5 * Day + 1,
     NowMs - Day - 1, NowMs - Day, NowMs, NowMs + 1}

StepsBucketRows == {StepsRow(t - UtcOffsetMs, t, c) : t \in StepsInstants, c \in {250, 1000}}

InitSteps ==
    /\ now = [ms |-> NowMs, us |-> 500]
    /\ result = NoCall
    /\ Fresh
    /\ dbExists = TRUE
    /\ tables = KNOWN_TABLES
    /\ \E r \in SeqsUpTo(StepsBucketRows, MaxRows) :
          store = With(EmptyStore, "steps_record_table", r)

NextSteps == GetDailySteps

SpecSteps == InitSteps /\ [][NextSteps]_vars

(* The calendar day of a bucket, as a day number: the day its
   local_date_time_start_time falls in. *)
BucketDay(i) == store["steps_record_table"][i].local_date_time_start_time \div Day

(* C20: get_daily_steps returns one row for each calendar day that has a
   bucket in the window and no other row; a row's steps is the sum of the counts
   of the buckets of its day that lie in the window; the dates go strictly down
   from row to row; the steps of all rows sum to the counts of all buckets in
   the window. *)
C20_DailySteps ==
    Returned("get_daily_steps") =>
        LET T == store["steps_record_table"]
            want == AskedRows("steps_record_table", "local_date_time_start_time")
            Count == [i \in 1..Len(T) |-> T[i].count]
        IN  /\ {Value[k].date : k \in 1..Len(Value)} = {BucketDay(i) : i \in want}
            /\ Len(Value) = Cardinality({BucketDay(i) : i \in want})
            /\ \A k \in 1..Len(Value) :
                  Value[k].steps
                     = SumOver(Count, {i \in want : BucketDay(i) = Value[k].date})
            /\ \A k \in 1..(Len(Value) - 1) : Value[k].date > Value[k + 1].date
            /\ SumOver([k \in 1..Len(Value) |-> Value[k].steps], 1..Len(Value))
                  = SumOver(Count, want)

(* A bucket in the last millisecond of day 4 and one in the first of day 5,
   both in the window: two rows, day 5 first. *)
C20_Witness ==
    /\ Returned("get_daily_steps")
    /\ store["steps_record_table"]
          = <<StepsRow(5 * Day - 1 - UtcOffsetMs, 5 * Day - 1, 1000),
              StepsRow(5 * Day - UtcOffsetMs, 5 * Day, 250)>>
    /\ Value = <<[date |-> 5, steps |-> 250], [date |-> 4, steps |-> 1000]>>

-----------------------------------------------------------------------------
(* Repeated calls (SpecRepeat): the accessors called in any order while the
   clock moves on; the caller keeps one answer to compare later ones with. *)

(* The clock read by the later calls: a day has passed. *)
Tick ==
    /\ now \in NowChoices
    /\ now' = PlusDays(now, 1)
    /\ UNCHANGED <<dbExists, tables, store, result, open, _db, constructed, trace, configVars, syncVars>>

(* The call has (days, end_date) as its first two arguments, end_date given. *)
ExplicitEnd(call) ==
    /\ call.op \in {"get_sleep_sessions", "get_daily_steps", "get_heart_rate_stats",
                    "get_daily_heart_rate", "get_workouts", "get_workout_summary",
                    "get_spo2_readings", "get_spo2_stats"}
    /\ call.args[2] # None

(* The caller keeps the answer of the call just made. *)
Keep ==
    /\ trace = <<>>
    /\ ExplicitEnd(result)
    /\ trace' = <<result>>
    /\ result' = NoCall
    /\ UNCHANGED <<now, dbExists, tables, store, open, _db, constructed, configVars, syncVars>>

InitRepeat ==
    /\ now = [ms |-> NowMs, us |-> 500]
    /\ result = NoCall
    /\ Fresh
    /\ \/ /\ dbExists = FALSE
          /\ tables = {}
          /\ store = EmptyStore
       \/ /\ dbExists = TRUE
          /\ tables = KNOWN_TABLES
          /\ store = SampleStore

NextRepeat ==
    \/ Next
    \/ Tick
    \/ Keep

SpecRepeat == InitRepeat /\ [][NextRepeat]_vars

(* C21: a call of an accessor with the same days, the same given end_date (and
   the same further arguments) as a call made earlier against the same store
   has the same outcome as that earlier call, whatever was called and however
   much time passed in between. *)
C21_RepeatedCallsAgree ==
    (/\ trace # <<>>
     /\ result.op = trace[1].op
     /\ result.args = trace[1].args)
    => result.out = trace[1].out

(* The same call made again a day later, both returning yesterday's workout. *)
C21_Witness ==
    /\ trace # <<>>
    /\ result.op = "get_workouts"
    /\ result.op = trace[1].op
    /\ result.args = trace[1].args
    /\ now \notin NowChoices
    /\ result.out.status = "return"
    /\ Len(result.out.value) = 1
    /\ result.out = trace[1].out

-----------------------------------------------------------------------------
(* The Config class (src/src/shealth/config.py) and the calls made on it
   (SpecConfig).  After a call that makes, changes or saves a Config, trace
   holds the call made before it. *)

(* The dotted keys asked for, and key.split(".") of each. *)
Split ==
    "goals" :> <<"goals">>
    @@ "goals.daily_steps" :> <<"goals", "daily_steps">>
    @@ "goals.sleep_hours" :> <<"goals", "sleep_hours">>
    @@ "timezone" :> <<"timezone">>
    @@ "timezone.name" :> <<"timezone", "name">>
    @@ "nonexistent.key" :> <<"nonexistent", "key">>

ConfigKeys == DOMAIN Split

(* The (key, value) pairs given to set(): a number for a key that is set, for
   a key under a value that is no dict and for a key under a missing part, and
   the dict literal {} in place of a nested dict. *)
SetCalls ==
    {<<"goals.daily_steps", PyInt(15000)>>, <<"goals", Map(<<>>)>>,
     <<"timezone.name", PyInt(15000)>>, <<"nonexistent.key", PyInt(15000)>>}

(* The default given to get(). *)
GetDefaults == {PyStr("default")}

(* A config file that sets one key only. *)
PartialDocument == Map("goals" :> Map("daily_steps" :> PyInt(12000)))

AttributeError == [type |-> "AttributeError"]
TypeError == [type |-> "TypeError"]

(* The dict a Config's _config refers to. *)
ConfigOf(c) == Ref(configs[c][1]._config)

RECURSIVE GetWalk(_, _, _, _)
(* The loop of Config.get over the parts left. *)
GetWalk(h, value, parts, default) ==
    IF parts = <<>> THEN value
    ELSE IF IsDict(value) /\ Head(parts) \in DOMAIN h[value[2]]
         THEN GetWalk(h, h[value[2]][Head(parts)], Tail(parts), default)
         ELSE default

(* Config.get(key, default) of the Config whose _config is the dict root. *)
Config_get(h, root, key, default) == GetWalk(h, root, Split[key], default)

RECURSIVE SetWalk(_, _, _, _)
(* The loop of Config.set over parts[:-1] and the assignment that ends it:
   [heap, status].  A part missing from a dict gets a new dict; a value on the
   way that is no dict supports neither `in` with a result that helps nor item
   assignment, and the call raises TypeError. *)
SetWalk(h, config, parts, value) ==
    IF ~IsDict(config) THEN [heap |-> h, status |-> "raise"]
    ELSE IF Len(parts) = 1
         THEN [heap |-> [h EXCEPT ![config[2]] = Put(@, parts[1], value)],
               status |-> "return"]
         ELSE IF Head(parts) \notin DOMAIN h[config[2]]
              THEN SetWalk([Append(h, <<>>) EXCEPT ![config[2]] =
                                Put(@, Head(parts), Ref(Len(h) + 1))],
                           Ref(Len(h) + 1), Tail(parts), value)
              ELSE SetWalk(h, h[config[2]][Head(parts)], Tail(parts), value)

(* Config.set(key, value) of the Config whose _config is the dict root, the
   value given as a literal: a dict literal is a new object. *)
Config_set(h, root, key, literal) ==
    LET v == yaml_safe_load(h, literal)
    IN  SetWalk(v[1], root, Split[key], v[2])

(* Config._load for the file content doc (None: no file): [heap, status,
   _config].  `yaml.safe_load(f) or {}`, then the merge with DEFAULT_CONFIG. *)
_load(h, doc) ==
    LET loaded == IF doc # None /\ Truthy(doc[1])
                  THEN yaml_safe_load(h, doc[1])
                  ELSE <<Append(h, <<>>), Ref(Len(h) + 1)>>
    IN  IF ~IsDict(loaded[2])
        THEN [heap |-> loaded[1], status |-> "raise", _config |-> 0]
        ELSE LET m == _merge_defaults(loaded[1], DEFAULT_CONFIG, loaded[2][2])
             IN  [heap |-> m[1], status |-> "return", _config |-> m[2]]

(* The Config objects in a fixed order, and the dicts the made ones refer to. *)
ConfigOrder == SetToSeq(ConfigNames)
ConfigRoots(cs) ==
    LET made == SelectSeq(ConfigOrder, LAMBDA c : cs[c] # None)
    IN  [i \in 1..Len(made) |-> cs[made[i]][1]._config]

(* The dicts a dict's values refer to. *)
Children(h, o) ==
    LET keys == SelectSeq(SetToSeq(DOMAIN h[o]), LAMBDA k : IsDict(h[o][k]))
    IN  [i \in 1..Len(keys) |-> h[o][keys[i]][2]]

RECURSIVE Reachable(_, _, _)
(* The objects reachable from todo and not in seen, added to seen in the order
   they are met. *)
Reachable(h, todo, seen) ==
    IF todo = <<>> THEN seen
    ELSE IF \E i \in 1..Len(seen) : seen[i] = Head(todo)
         THEN Reachable(h, Tail(todo), seen)
         ELSE Reachable(h, Children(h, Head(todo)) \o Tail(todo), Append(seen, Head(todo)))

(* The heap after the objects nothing refers to are reclaimed: [heap, configs].
   An object's number is its place among the live objects; the program never
   looks at it.  The three objects of DEFAULT_CONFIG keep their numbers. *)
Collected(h, cs) ==
    LET live == Reachable(h, Children(h, 2) \o Children(h, 3) \o ConfigRoots(cs),
                          <<1, 2, 3>>)
        number(o) == CHOOSE i \in 1..Len(live) : live[i] = o
        moved(v) == IF IsDict(v) THEN Ref(number(v[2])) ELSE v
    IN  [heap |-> [i \in 1..Len(live) |->
                      [k \in DOMAIN h[live[i]] |-> moved(h[live[i]][k])]],
         configs |-> [c \in ConfigNames |->
                         IF cs[c] = None THEN None
                         ELSE Some([cs[c][1] EXCEPT !._config = number(@)])]]

(* c = Config(config_path) *)
ConfigInit ==
    \E c \in ConfigNames :
      \E config_path \in PathsOf(c) :
        LET made == _load(heap, files[config_path])
            kept == IF made.status = "return"
                    THEN Collected(made.heap,
                                   [configs EXCEPT ![c] =
                                        Some([config_path |-> config_path,
                                              _config |-> made._config])])
                    ELSE Collected(made.heap, configs)
        IN  /\ configs[c] = None
            /\ heap' = kept.heap
            /\ configs' = kept.configs
            /\ result' = Call("Config", <<c, config_path>>,
                              IF made.status = "return" THEN Return(None)
                              ELSE Raise(AttributeError))
            /\ trace' = <<result>>
            /\ UNCHANGED <<now, dbExists, tables, store, open, _db, constructed, files,
                           syncVars>>

(* c.get(key, default); the answer is recorded as the document it dumps to. *)
ConfigGet ==
    \E c \in ConfigNames, key \in ConfigKeys, default \in GetDefaults :
        /\ configs[c] # None
        /\ result' = Call("get", <<c, key, default>>,
                          Return(yaml_dump(heap, Config_get(heap, ConfigOf(c), key, default))))
        /\ UNCHANGED <<now, dbExists, tables, store, open, _db, constructed, trace,
                       configVars, syncVars>>

(* c.set(key, value) *)
ConfigSet ==
    \E c \in Changed, call \in SetCalls :
        LET key == call[1]
            value == call[2]
            done == Config_set(heap, ConfigOf(c), key, value)
            kept == Collected(done.heap, configs)
        IN  /\ configs[c] # None
            /\ heap' = kept.heap
            /\ configs' = kept.configs
            /\ result' = Call("set", <<c, key, value>>,
                              IF done.status = "return" THEN Return(None)
                              ELSE Raise(TypeError))
            /\ trace' = <<result>>
            /\ UNCHANGED <<now, dbExists, tables, store, open, _db, constructed, files,
                           syncVars>>

(* c.save() *)
ConfigSave ==
    \E c \in Changed :
        /\ configs[c] # None
        /\ files' = [files EXCEPT ![configs[c][1].config_path] =
                         Some(yaml_dump(heap, ConfigOf(c)))]
        /\ result' = Call("save", <<c>>, Return(None))
        /\ trace' = <<result>>
        /\ UNCHANGED <<now, dbExists, tables, store, open, _db, constructed, heap,
                       configs, syncVars>>

(* No Config made yet; config.yaml absent or setting one key, other.yaml absent. *)
InitConfig ==
    /\ now = [ms |-> NowMs, us |-> 500]
    /\ result = NoCall
    /\ dbExists = FALSE
    /\ tables = {}
    /\ store = EmptyStore
    /\ open = 0
    /\ _db = None
    /\ constructed = 0
    /\ trace = <<>>
    /\ heap = DefaultHeap
    /\ configs = [c \in ConfigNames |-> None]
    /\ files \in {[p \in ConfigPaths |-> None],
                  [p \in ConfigPaths |-> IF p = "config.yaml" THEN Some(PartialDocument)
                                         ELSE None]}
    /\ FreshSync

NextConfig ==
    \/ ConfigInit
    \/ ConfigGet
    \/ ConfigSet
    \/ ConfigSave

SpecConfig == InitConfig /\ [][NextConfig]_vars

-----------------------------------------------------------------------------
(* Properties of Config (SpecConfig). *)

RECURSIVE Stored(_, _, _)
(* What the document t holds along the parts, default where a part is missing
   or the content on the way is no mapping. *)
Stored(t, parts, default) ==
    IF parts = <<>> THEN t
    ELSE IF t[1] = "map" /\ Head(parts) \in DOMAIN t[2]
         THEN Stored(t[2][Head(parts)], Tail(parts), default)
         ELSE default

(* DEFAULT_CONFIG as the module's source text writes it. *)
BuiltInDefaults == yaml_dump(DefaultHeap, Ref(DEFAULT_CONFIG))

Missing == <<"missing", 0>>

(* The keys DEFAULT_CONFIG gives a scalar for. *)
DefaultKeys == {"goals.daily_steps", "goals.sleep_hours", "timezone"}

(* What c answers to get(key, default), in heap h with the Config objects cs. *)
Answer(h, cs, c, key, default) ==
    yaml_dump(h, Config_get(h, Ref(cs[c][1]._config), key, default))

(* The step makes the Config c. *)
Made(c) == configs[c] = None /\ configs'[c] # None

(* C22: get(key, default) answers with the value stored along the segments of
   the key when each exists in a nested mapping, and with default otherwise; a
   Config made with no config file answers 10000 for goals.daily_steps and 8
   for goals.sleep_hours, and one made from a file answers for every key the
   file does not set with the built-in default. *)
C22_GetAndDefaults ==
    [][/\ (result' # result /\ result'.op = "get") =>
              result'.out.value =
                  Stored(yaml_dump(heap, ConfigOf(result'.args[1])),
                         Split[result'.args[2]], result'.args[3])
       /\ \A c \in ConfigNames :
              Made(c) =>
                  LET doc == files[configs'[c][1].config_path]
                      document == IF doc = None THEN Map(<<>>) ELSE doc[1]
                  IN  \A key \in DefaultKeys :
                          Answer(heap', configs', c, key, Missing) =
                              IF Stored(document, Split[key], Missing) # Missing
                              THEN Stored(document, Split[key], Missing)
                              ELSE Stored(BuiltInDefaults, Split[key], Missing)
      ]_vars

(* C23: when config.set(key, v) has returned, config.save() has followed and a
   new Config is made from the same path, the new Config answers v for key and
   answers for every other key what the first Config does. *)
C23_SetSaveReload ==
    [][\A c \in Changed, c2 \in ConfigNames :
           (/\ Made(c2)
            /\ configs[c] # None
            /\ configs'[c2][1].config_path = configs[c][1].config_path
            /\ result = Call("save", <<c>>, Return(None))
            /\ trace # <<>>
            /\ trace[1].op = "set"
            /\ trace[1].out.status = "return"
            /\ trace[1].args[1] = c)
           => \A key \in ConfigKeys, default \in GetDefaults :
                  Answer(heap', configs', c2, key, default) =
                      IF key = trace[1].args[2] THEN trace[1].args[3]
                      ELSE Answer(heap, configs, c, key, default)
      ]_vars

(* C27: whatever is set on one Config, DEFAULT_CONFIG stays as built in, the
   other Config objects answer as they did, and a Config made afterwards from
   an absent file answers with the built-in defaults. *)
C27_ConfigsIsolated ==
    /\ [](yaml_dump(heap, Ref(DEFAULT_CONFIG)) = BuiltInDefaults)
    /\ [][/\ (result' # result /\ result'.op = "set") =>
                 \A c2 \in ConfigNames \ {result'.args[1]} :
                     configs[c2] # None =>
                         yaml_dump(heap', Ref(configs'[c2][1]._config))
                             = yaml_dump(heap, ConfigOf(c2))
          /\ \A c \in ConfigNames :
                 (Made(c) /\ files[configs'[c][1].config_path] = None) =>
                     yaml_dump(heap', Ref(configs'[c][1]._config)) = BuiltInDefaults
         ]_vars

-----------------------------------------------------------------------------
(* The sync step (src/src/shealth/sync.py).  An archive is told by its bytes;
   a file's content is the store it holds (an empty file holds no table).
   trace holds the external commands a sync run made, with their outcomes. *)

(* The content of a store file: the tables it has and their rows. *)
Image(ts, s) == [tables |-> ts, store |-> s]
SampleImage == Image(KNOWN_TABLES, SampleStore)
EmptyImage == Image(KNOWN_TABLES, EmptyStore)
OtherImage == Image(KNOWN_TABLES, TodayStore)

(* A file of no bytes, as open(db_path, "wb") leaves it. *)
NoBytes == Image({}, EmptyStore)

(* An entry of an archive; content None: its data cannot be read back (a bad
   CRC, a broken stream). *)
Entry(name, content) == [name |-> name, content |-> content]

(* The downloads: a zip is a readable archive or not. *)
Archive(bytes, zip, entries) == [bytes |-> bytes, zip |-> zip, entries |-> entries]

Archives ==
    {Archive("export", TRUE,
             <<Entry("random_file.txt", Some(OtherImage)),
               Entry("health_connect_export.db", Some(SampleImage))>>),
     Archive("two databases", TRUE,
             <<Entry("data.db", Some(EmptyImage)),
               Entry("Health_Connect.sqlite", Some(SampleImage))>>),
     Archive("no database", TRUE, <<Entry("random_file.txt", Some(OtherImage))>>),
     Archive("not a zip file", FALSE, <<>>),
     Archive("damaged", TRUE, <<Entry("health_connect_export.db", None)>>)}

(* name.endswith(".db") or "health_connect" in name.lower(), for the names above. *)
IsDatabaseName ==
    "random_file.txt" :> FALSE
    @@ "health_connect_export.db" :> TRUE
    @@ "data.db" :> TRUE
    @@ "Health_Connect.sqlite" :> TRUE

(* hashlib.md5 of the file's bytes, as hex digits. *)
get_file_hash(a) == <<"md5", a.bytes>>

(* The store file as it is. *)
DbFile == [exists |-> dbExists, image |-> Image(tables, store)]
Written(image) == [exists |-> TRUE, image |-> image]

(* The last name of the archive that names a database, 0 if none does. *)
db_name_last(a) ==
    LET found == {i \in 1..Len(a.entries) : IsDatabaseName[a.entries[i].name]}
    IN  IF found = {} THEN 0 ELSE SetMax(found)

(* The loop over zf.namelist(): the first name that names a database, 0 if
   none does. *)
db_name(a) ==
    LET found == {i \in 1..Len(a.entries) : IsDatabaseName[a.entries[i].name]}
    IN  IF found = {} THEN 0 ELSE SetMin(found)

(* extract_database(zip_path) on the archive a, the disk taking the output or
   full: [out, db].  BadZipFile and every other exception end in `return
   False`.  The output is opened for writing, and so emptied, before the
   entry's data is read and written. *)
extract_database(a, disk) ==
    IF ~a.zip THEN [out |-> Return(FALSE), db |-> DbFile]
    ELSE IF db_name(a) = 0 THEN [out |-> Return(FALSE), db |-> DbFile]
    ELSE IF a.entries[db_name(a)].content = None \/ disk = "full"
         THEN [out |-> Return(FALSE), db |-> Written(NoBytes)]
    ELSE [out |-> Return(TRUE), db |-> Written(a.entries[db_name(a)].content[1])]

(* What the commands a run starts can do: gog installed or not, `gog drive ls`
   failing, printing no JSON, printing JSON that is no list of objects, or
   printing the list of the folder's files; `gog drive download` failing,
   leaving no file, or writing the file; the disk taking the store file or not. *)
Environments ==
    {e \in [gog : BOOLEAN, ls : {"error", "invalid", "other", "list"},
            download : {"error", "missing", "done"}, disk : {"ok", "full"}] :
        (* what comes after the first failure is not looked at *)
        /\ ~e.gog => e.ls = "list"
        /\ e.ls # "list" => e.download = "done"
        /\ e.download # "done" => e.disk = "ok"}

FileNotFoundError == [type |-> "FileNotFoundError"]

(* The state a run leaves and its outcome. *)
Outcome(out, zip, hash, db, calls) ==
    [out |-> out, cache_zip |-> zip, cache_hash_file |-> hash, db |-> db, calls |-> calls]
Unchanged(out, calls) == Outcome(out, cache_zip, cache_hash_file, DbFile, calls)

(* download_health_data(force) in the environment env. *)
download_health_data(force, env) ==
    LET ls == Call("gog drive ls", <<>>, Return(env.ls))
        download == Call("gog drive download", <<>>,
                         Return(IF env.download = "done" THEN drive ELSE None))
    IN  IF ~env.gog THEN Unchanged(Raise(FileNotFoundError), <<>>)
        ELSE IF env.ls = "error" THEN Unchanged(Return(FALSE), <<ls>>)
        ELSE IF env.ls = "invalid" THEN Unchanged(Return(FALSE), <<ls>>)
        ELSE IF env.ls = "other" THEN Unchanged(Raise(AttributeError), <<ls>>)
        ELSE IF drive = None THEN Unchanged(Return(FALSE), <<ls>>)
        ELSE IF env.download # "done" THEN Unchanged(Return(FALSE), <<ls, download>>)
        ELSE LET new_hash == get_file_hash(drive[1])
                 extracted == extract_database(drive[1], env.disk)
             IN  IF ~force /\ cache_hash_file # None /\ cache_hash_file[1] = new_hash
                 THEN Unchanged(Return(FALSE), <<ls, download>>)
                 ELSE Outcome(extracted.out, drive, Some(new_hash), extracted.db,
                              <<ls, download>>)

(* sync_data(force) in the environment env. *)
sync_data(force, env) ==
    LET which == Call("which gog", <<>>, Return(env.gog))
        downloaded == download_health_data(force, env)
    IN  IF ~env.gog THEN Unchanged(Return(FALSE), <<which>>)
        ELSE [downloaded EXCEPT !.calls = <<which>> \o @]

(* The effect of a run on the cache, the store file and the record of calls. *)
Ran(name, args, run) ==
    /\ result' = Call(name, args, run.out)
    /\ trace' = run.calls
    /\ cache_zip' = run.cache_zip
    /\ cache_hash_file' = run.cache_hash_file
    /\ dbExists' = run.db.exists
    /\ tables' = run.db.image.tables
    /\ store' = run.db.image.store
    /\ UNCHANGED <<now, open, _db, constructed, drive, configVars>>

SyncData ==
    \E force \in BOOLEAN, env \in Environments :
        Ran("sync_data", <<force>>, sync_data(force, env))

DownloadHealthData ==
    \E force \in BOOLEAN, env \in Environments :
        Ran("download_health_data", <<force>>, download_health_data(force, env))

ExtractDatabase ==
    \E a \in Archives, disk \in {"ok", "full"} :
        LET extracted == extract_database(a, disk)
        IN  Ran("extract_database", <<a>>,
                Outcome(extracted.out, cache_zip, cache_hash_file, extracted.db, <<>>))

(* A new export is uploaded to the Drive folder, or the file is removed. *)
Upload ==
    /\ drive' \in ({None} \cup {Some(a) : a \in Archives}) \ {drive}
    /\ UNCHANGED <<now, dbExists, tables, store, result, open, _db, constructed, trace,
                   cache_zip, cache_hash_file, configVars>>

(* Nothing cached; no store file yet, or the one an earlier export left; any
   file, or none, in the Drive folder. *)
InitSync ==
    /\ now = [ms |-> NowMs, us |-> 500]
    /\ result = NoCall
    /\ open = 0
    /\ _db = None
    /\ constructed = 0
    /\ trace = <<>>
    /\ FreshConfig
    /\ cache_zip = None
    /\ cache_hash_file = None
    /\ drive \in {None} \cup {Some(a) : a \in Archives}
    /\ \/ dbExists = FALSE /\ tables = {} /\ store = EmptyStore
       \/ dbExists = TRUE /\ tables = KNOWN_TABLES /\ store = TodayStore

NextSync ==
    \/ SyncData
    \/ DownloadHealthData
    \/ ExtractDatabase
    \/ Upload

SpecSync == InitSync /\ [][NextSync]_vars

(* Sync runs only: what the CLI's sync command does, again and again. *)
NextRuns ==
    \/ SyncData
    \/ DownloadHealthData
    \/ Upload

SpecRuns == InitSync /\ [][NextRuns]_vars

-----------------------------------------------------------------------------
(* Properties of the sync step (SpecSync, SpecRuns). *)

SyncCalls == {"sync_data", "download_health_data", "extract_database"}

(* The archive the last call worked on: extract_database's argument, or what
   `gog drive download` fetched. *)
Processed ==
    IF result.op = "extract_database" THEN result.args[1]
    ELSE trace[Len(trace)].out.value[1]

(* The content of the entry of a that is its database: the first one whose
   name ends in .db or has health_connect in it. *)
DatabaseEntry(a) ==
    LET i == CHOOSE i \in 1..Len(a.entries) :
                 /\ IsDatabaseName[a.entries[i].name]
                 /\ \A j \in 1..(i - 1) : ~IsDatabaseName[a.entries[j].name]
    IN  a.entries[i].content

(* a is a zip whose database entry can be read. *)
Extractable(a) ==
    /\ a.zip
    /\ \E i \in 1..Len(a.entries) : IsDatabaseName[a.entries[i].name]
    /\ DatabaseEntry(a) # None

(* C24: when sync_data, download_health_data or extract_database has returned
   True, the store file exists and holds exactly the bytes of the database
   entry of the archive the call worked on. *)
C24_SyncGuaranteesDataFile ==
    (result.op \in SyncCalls /\ result.out = Return(TRUE)) =>
        /\ Extractable(Processed)
        /\ dbExists
        /\ Image(tables, store) = DatabaseEntry(Processed)[1]

(* A sync run that fetched the archive of two databases and left the first one
   as the store file. *)
C24_Witness ==
    /\ result.op = "sync_data"
    /\ result.out = Return(TRUE)
    /\ Len(trace) = 3
    /\ Processed.bytes = "two databases"
    /\ dbExists
    /\ Image(tables, store) = EmptyImage

(* C25: no call of the sync step raises; sync_data returns False when gog is
   not installed, having started neither `gog drive ls` nor the download;
   download_health_data returns False when the listing fails, is no JSON or
   does not hold the file, and when the download fails or leaves no file;
   extract_database returns False for a file that is no zip and for a zip
   without a database entry. *)
C25_SyncNeverRaises ==
    result.op \in SyncCalls =>
        /\ result.out.status = "return"
        /\ (result.op = "sync_data" /\ trace[1].out.value = FALSE) =>
               (result.out = Return(FALSE) /\ Len(trace) = 1)
        /\ (/\ result.op # "extract_database"
            /\ trace # <<>>
            /\ trace[Len(trace)].op = "gog drive ls") => result.out = Return(FALSE)
        /\ (/\ result.op # "extract_database"
            /\ trace # <<>>
            /\ trace[Len(trace)].op = "gog drive download"
            /\ trace[Len(trace)].out.value = None) => result.out = Return(FALSE)
        /\ (/\ result.op = "extract_database"
            /\ (~result.args[1].zip
                \/ \A i \in 1..Len(result.args[1].entries) :
                       ~IsDatabaseName[result.args[1].entries[i].name]))
               => result.out = Return(FALSE)

(* C26: the hash file records the hash of an archive only if the store file
   was extracted from that archive: the archive can be extracted and the store
   file holds its database entry. *)
C26_HashOnlyAfterExtraction ==
    cache_hash_file # None =>
        \E a \in Archives :
            /\ get_file_hash(a) = cache_hash_file[1]
            /\ Extractable(a)
            /\ dbExists
            /\ Image(tables, store) = DatabaseEntry(a)[1]

(* C28: a call of extract_database that returns False leaves the store file
   as it was: absent if it was absent, and with the same content otherwise. *)
C28_FailedExtractionKeepsStore ==
    [][(result'.op = "extract_database" /\ result'.out = Return(FALSE)) =>
           (dbExists' = dbExists /\ tables' = tables /\ store' = store)]_vars

-----------------------------------------------------------------------------
(* The workout command's filter by type (SpecCli). *)

(* The --type of the last workout command is given and is, in some case of its
   letters, the name of an exercise type. *)
KnownCategory ==
    /\ result.args[2] # None
    /\ result.args[2][1] # ""
    /\ \E c \in DOMAIN EXERCISE_TYPES : Lower(EXERCISE_TYPES[c]) = Lower(result.args[2][1])

(* The workouts of the window whose exercise_name, as the command shows it, is
   the --type asked for, whatever the case of its letters. *)
CommandWorkoutsOfType ==
    {i \in CommandWorkouts :
        Lower(ExerciseName(store["exercise_session_record_table"][i].exercise_type))
            = Lower(result.args[2][1])}

(* The workouts of the window whose exercise_type is the code the --type
   resolves to. *)
CommandWorkoutsOfCode ==
    {i \in CommandWorkouts :
        store["exercise_session_record_table"][i].exercise_type
            = type_code(result.args[2])[1]}

(* The last command was `workout` with a known --type, accepted, against a
   store that has the workouts table. *)
FilteredWorkout ==
    /\ Called("workout")
    /\ ~Rejected
    /\ KnownCategory
    /\ dbExists
    /\ "exercise_session_record_table" \in tables

(* C29: the workout command given the name of an exercise type lists the
   workouts of the window that are shown under that name, all of them and no
   other, also when several codes have the name. *)
C29_FilterByName ==
    FilteredWorkout =>
        /\ trace[3].out.status = "return"
        /\ {trace[3].out.value[k].row_id : k \in 1..Len(trace[3].out.value)}
              = CommandWorkoutsOfType
        /\ Len(trace[3].out.value) = Cardinality(CommandWorkoutsOfType)

(* C30: the workout command given the name of an exercise type reports a
   summary of the workouts it lists: it prints that no workouts were found
   exactly when the window has no workout of the code the type resolves to,
   and otherwise
   summary.total_workouts is the number of workouts listed. *)
C30_SummaryMatchesList ==
    FilteredWorkout =>
        /\ result.out.status = "return"
        /\ (result.out.value = Printed("No workouts found for this period"))
               <=> (CommandWorkoutsOfCode = {})
        /\ CommandWorkoutsOfCode # {} =>
               result.out.value.summary.total_workouts = Len(result.out.value.workouts)

====
